---- MODULE Spec2Model ----
(***************************************************************************)
(* Notion block pipeline of the TechBlog repository:                       *)
(*   api/blocks/block-parser.ts  NotionBlockParser (pure functions)        *)
(*   api/post-detail.ts          getPageBlocks / fetchBlocksRecursively    *)
(*                                                                         *)
(* JavaScript values are modelled as tagged records, so that a string, a   *)
(* boolean, null, undefined, an array and an object can be told apart and  *)
(* compared: the parser is duck-typed and its behaviour depends on which   *)
(* of these it meets.  A thrown exception is the value Throw.              *)
(***************************************************************************)
EXTENDS Integers, Sequences, FiniteSets, TLC

VARIABLES
    op,       \* the parser function under call: "none" before a call
    arg,      \* the argument the parser function is called with
    ret,      \* what the call returned (NotCalled before it returns)
    phase,    \* getPageBlocks: "idle", "running", "done"
    stack,    \* fetchBlocksRecursively: the activation frames, innermost last
    pending,  \* block_id of the outstanding notion.blocks.children.list call
    nextId,   \* number of source block records handed out so far
    calls,    \* block_id of every children.list call issued, in order
    listed,   \* the responses the external API gave: <<block_id, results,
              \* has_more, the records after the page>>
    failed,   \* TRUE once a children.list call has failed in this run
    result,   \* what getPageBlocks resolved to (NotCalled while running)
    apiKey,   \* TRUE when process.env.NOTION_API_KEY is set
    source,   \* the kinds of block records the external source holds
    overflow, \* the lengths of the long lists of children the source holds
    postPc,   \* getPostById: "idle", "retrieve" (awaiting pages.retrieve), "done"
    retrieves,    \* number of notion.pages.retrieve calls issued
    pageResponse, \* what pages.retrieve gave: a page, Throw when it rejected
    post,     \* what getPostById resolved to (NotCalled while running)
    joined,   \* what getPostWithBlocks resolved to (NotCalled before)
    view      \* what BlogPostPage came to: "none", "notFound", "article"

parserVars == <<op, arg, ret>>
fetchVars == <<phase, stack, pending, nextId, calls, listed, failed, result>>
envVars == <<apiKey, source, overflow>>
postVars == <<postPc, retrieves, pageResponse, post>>
pageVars == <<joined, view>>
vars == <<op, arg, ret, phase, stack, pending, nextId, calls, listed, failed, result,
          apiKey, source, overflow, postPc, retrieves, pageResponse, post, joined, view>>

-----------------------------------------------------------------------------
(* Bounds of the model *)

\* longest rich-text array / block array enumerated in full
MaxRuns == 2
\* longest block array given to parseBlocks
MaxBlocks == 3
\* number of source block records one getPageBlocks run may meet
MaxNodes == 3
\* number of records one children listing may hold
MaxChildren == 2

-----------------------------------------------------------------------------
(* JavaScript values *)

Undef == [k |-> "undef"]
Null == [k |-> "null"]
Throw == [k |-> "throw"]
NotCalled == [k |-> "notcalled"]
JStr(s) == [k |-> "str", s |-> s]
JBool(b) == [k |-> "bool", b |-> b]
JNum(n) == [k |-> "num", n |-> n]
JArr(a) == [k |-> "arr", a |-> a]
JObj(fields) == [k |-> "obj"] @@ fields
EmptyObj == [k |-> "obj"]

JTrue == JBool(TRUE)
JFalse == JBool(FALSE)

IsNullish(v) == v.k \in {"undef", "null"}
IsArray(v) == v.k = "arr"
IsThrow(v) == v.k = "throw"

\* ToBoolean: undefined, null, false, "" and 0 are falsy
Truthy(v) ==
    /\ ~IsNullish(v)
    /\ ~(v.k = "bool" /\ ~v.b)
    /\ ~(v.k = "str" /\ v.s = "")
    /\ ~(v.k = "num" /\ v.n = 0)

\* a || b
Or(a, b) == IF Truthy(a) THEN a ELSE b

\* own property f of a non-nullish value (undefined when there is none)
Prop(o, f) == IF o.k = "obj" /\ f \in DOMAIN o THEN o[f] ELSE Undef

\* o.f : a TypeError on null and undefined
Member(o, f) == IF IsNullish(o) THEN Throw ELSE Prop(o, f)

\* o?.f
OptMember(o, f) == IF IsNullish(o) THEN Undef ELSE Prop(o, f)

-----------------------------------------------------------------------------
(* NotionBlockParser.parseRichText *)

\* a copy-paste slip: the italic line reads the bold flag
annotationOf_copyPaste(rt, field, dflt) ==
    Or(OptMember(Prop(rt, "annotations"),
                 IF field = "italic" THEN "bold" ELSE field), dflt)

\* rt.annotations?.<flag> || dflt
annotationOf(rt, field, dflt) ==
    Or(OptMember(Prop(rt, "annotations"), field), dflt)

\* the || undefined left out
linkOf_keepEmpty(rt) ==
    OptMember(OptMember(Prop(rt, "text"), "link"), "url")

\* rt.text?.link?.url || undefined
linkOf(rt) ==
    Or(OptMember(OptMember(Prop(rt, "text"), "link"), "url"), Undef)

\* the arrow function given to richTextArray.map: rt is not null/undefined
richTextSpan(rt) ==
    JObj([content |-> Or(Prop(rt, "plain_text"), JStr("")),
          link |-> linkOf(rt),
          annotations |->
              JObj([bold |-> annotationOf(rt, "bold", JFalse),
                    italic |-> annotationOf(rt, "italic", JFalse),
                    strikethrough |-> annotationOf(rt, "strikethrough", JFalse),
                    underline |-> annotationOf(rt, "underline", JFalse),
                    code |-> annotationOf(rt, "code", JFalse),
                    color |-> annotationOf(rt, "color", JStr("default"))])])

\* a filter slipped in: runs without text are left out
parseRichText_skipEmpty(richTextArray) ==
    IF ~Truthy(richTextArray) \/ ~IsArray(richTextArray)
    THEN JArr(<<>>)
    ELSE IF \E i \in 1..Len(richTextArray.a) : IsNullish(richTextArray.a[i])
         THEN Throw
         ELSE LET spans == [i \in 1..Len(richTextArray.a) |->
                               richTextSpan(richTextArray.a[i])]
                  HasText(span) == span.content # JStr("")
              IN  JArr(SelectSeq(spans, HasText))

\* rt.plain_text on a null or undefined element raises a TypeError, which
\* leaves map and parseRichText
parseRichText(richTextArray) ==
    IF ~Truthy(richTextArray) \/ ~IsArray(richTextArray)
    THEN JArr(<<>>)
    ELSE IF \E i \in 1..Len(richTextArray.a) : IsNullish(richTextArray.a[i])
         THEN Throw
         ELSE JArr([i \in 1..Len(richTextArray.a) |->
                        richTextSpan(richTextArray.a[i])])

-----------------------------------------------------------------------------
(* NotionBlockParser: the per-type parsers *)

\* codeData?.rich_text || []  and its like
OrEmptyArray(v) == Or(v, JArr(<<>>))

\* String(v), as Array.prototype.join applies it to an element
RECURSIVE ToJsString(_)
RECURSIVE JoinFrom(_, _, _)

\* elements i.. of array a joined with separator sep; join writes undefined
\* and null as the empty string
JoinFrom(a, i, sep) ==
    IF i > Len(a) THEN ""
    ELSE (IF IsNullish(a[i]) THEN "" ELSE ToJsString(a[i]))
         \o (IF i < Len(a) THEN sep ELSE "")
         \o JoinFrom(a, i + 1, sep)

ToJsString(v) ==
    CASE v.k = "str" -> v.s
      [] v.k = "num" -> ToString(v.n)
      [] v.k = "bool" -> (IF v.b THEN "true" ELSE "false")
      [] v.k = "undef" -> "undefined"
      [] v.k = "null" -> "null"
      [] v.k = "arr" -> JoinFrom(v.a, 1, ",")
      [] OTHER -> "[object Object]"

\* join() without its argument separates with a comma
codeContent_commaJoin(richText) ==
    IF ~IsArray(richText) THEN Throw
    ELSE IF \E i \in 1..Len(richText.a) : IsNullish(richText.a[i]) THEN Throw
    ELSE JStr(JoinFrom([i \in 1..Len(richText.a) |->
                           Prop(richText.a[i], "plain_text")], 1, ","))

\* richText.map((rt) => rt.plain_text).join("")
\* .map is not a function on a non-array, rt.plain_text raises on a
\* null or undefined element
codeContent(richText) ==
    IF ~IsArray(richText) THEN Throw
    ELSE IF \E i \in 1..Len(richText.a) : IsNullish(richText.a[i]) THEN Throw
    ELSE JStr(JoinFrom([i \in 1..Len(richText.a) |->
                           Prop(richText.a[i], "plain_text")], 1, ""))

parseParagraph(block) ==
    LET content == parseRichText(OrEmptyArray(
                       OptMember(Prop(block, "paragraph"), "rich_text")))
    IN  IF IsThrow(content) THEN Throw
        ELSE JObj([type |-> JStr("paragraph"),
                   content |-> content,
                   hasChildren |-> Or(Prop(block, "has_children"), JFalse)])

\* the level is hard-coded
parseHeading_level1(block) ==
    LET headingData == Prop(block, Prop(block, "type").s)
        content == parseRichText(OrEmptyArray(OptMember(headingData, "rich_text")))
    IN  IF IsThrow(content) THEN Throw
        ELSE JObj([type |-> JStr("heading_1"),
                   content |-> content,
                   isToggleable |->
                       Or(OptMember(headingData, "is_toggleable"), JFalse)])

parseHeading(block) ==
    LET type == Prop(block, "type")
        headingData == Prop(block, type.s)
        content == parseRichText(OrEmptyArray(OptMember(headingData, "rich_text")))
    IN  IF IsThrow(content) THEN Throw
        ELSE JObj([type |-> type,
                   content |-> content,
                   isToggleable |->
                       Or(OptMember(headingData, "is_toggleable"), JFalse)])

parseListItem(block) ==
    LET type == Prop(block, "type")
        listData == Prop(block, type.s)
        content == parseRichText(OrEmptyArray(OptMember(listData, "rich_text")))
    IN  IF IsThrow(content) THEN Throw
        ELSE JObj([type |-> type,
                   content |-> content,
                   hasChildren |-> Or(Prop(block, "has_children"), JFalse)])

parseQuote(block) ==
    LET content == parseRichText(OrEmptyArray(
                       OptMember(Prop(block, "quote"), "rich_text")))
    IN  IF IsThrow(content) THEN Throw
        ELSE JObj([type |-> JStr("quote"), content |-> content])

parseCode(block) ==
    LET codeData == Prop(block, "code")
        richText == OrEmptyArray(OptMember(codeData, "rich_text"))
        content == codeContent(richText)
        caption == parseRichText(OrEmptyArray(OptMember(codeData, "caption")))
    IN  IF IsThrow(content) \/ IsThrow(caption) THEN Throw
        ELSE JObj([type |-> JStr("code"),
                   content |-> content,
                   language |->
                       Or(OptMember(codeData, "language"), JStr("plain text")),
                   caption |-> caption])

\* the url of whichever sub-object holds one, whatever the type tag
urlByTypeTag_either(data) ==
    Or(OptMember(Prop(data, "external"), "url"),
       OptMember(Prop(data, "file"), "url"))

\* iconData.type === "external" ? iconData.external?.url : iconData.file?.url
urlByTypeTag(data) ==
    IF Prop(data, "type") = JStr("external")
    THEN OptMember(Prop(data, "external"), "url")
    ELSE OptMember(Prop(data, "file"), "url")

parseCallout(block) ==
    LET calloutData == Prop(block, "callout")
        iconData == OptMember(calloutData, "icon")
        icon == IF Truthy(iconData)
                THEN JObj([type |-> Prop(iconData, "type"),
                           emoji |-> Prop(iconData, "emoji"),
                           url |-> urlByTypeTag(iconData)])
                ELSE Undef
        content == parseRichText(OrEmptyArray(OptMember(calloutData, "rich_text")))
    IN  IF IsThrow(content) THEN Throw
        ELSE JObj([type |-> JStr("callout"),
                   content |-> content,
                   icon |-> icon,
                   color |-> Or(OptMember(calloutData, "color"), JStr("default"))])

parseDivider(block) == JObj([type |-> JStr("divider")])

\* the test of the url (if (!url) return null) is missing
parseImage_noUrlCheck(block) ==
    LET imageData == Prop(block, "image")
        url == urlByTypeTag(imageData)
        caption == parseRichText(OrEmptyArray(Prop(imageData, "caption")))
    IN  IF ~Truthy(imageData) THEN Null
        ELSE IF IsThrow(caption) THEN Throw
        ELSE JObj([type |-> JStr("image"), url |-> url, caption |-> caption])

parseImage(block) ==
    LET imageData == Prop(block, "image")
        url == urlByTypeTag(imageData)
        caption == parseRichText(OrEmptyArray(Prop(imageData, "caption")))
    IN  IF ~Truthy(imageData) THEN Null
        ELSE IF ~Truthy(url) THEN Null
        ELSE IF IsThrow(caption) THEN Throw
        ELSE JObj([type |-> JStr("image"), url |-> url, caption |-> caption])

parseBookmark(block) ==
    LET caption == parseRichText(OrEmptyArray(
                       OptMember(Prop(block, "bookmark"), "caption")))
    IN  IF IsThrow(caption) THEN Throw
        ELSE JObj([type |-> JStr("bookmark"),
                   url |-> Or(OptMember(Prop(block, "bookmark"), "url"), JStr("")),
                   caption |-> caption])

parseToggle(block) ==
    LET content == parseRichText(OrEmptyArray(
                       OptMember(Prop(block, "toggle"), "rich_text")))
    IN  IF IsThrow(content) THEN Throw
        ELSE JObj([type |-> JStr("toggle"),
                   content |-> content,
                   hasChildren |-> Or(Prop(block, "has_children"), JFalse)])

parseToDo(block) ==
    LET content == parseRichText(OrEmptyArray(
                       OptMember(Prop(block, "to_do"), "rich_text")))
    IN  IF IsThrow(content) THEN Throw
        ELSE JObj([type |-> JStr("to_do"),
                   content |-> content,
                   checked |-> Or(OptMember(Prop(block, "to_do"), "checked"), JFalse),
                   hasChildren |-> Or(Prop(block, "has_children"), JFalse)])

\* the switch of parseBlock: case labels compare with ===
parseBlock(block) ==
    LET type == Member(block, "type")
    IN  CASE IsThrow(type) -> Throw
          [] type = JStr("paragraph") -> parseParagraph(block)
          [] type \in {JStr("heading_1"), JStr("heading_2"), JStr("heading_3")} ->
                parseHeading(block)
          [] type \in {JStr("bulleted_list_item"), JStr("numbered_list_item")} ->
                parseListItem(block)
          [] type = JStr("quote") -> parseQuote(block)
          [] type = JStr("code") -> parseCode(block)
          [] type = JStr("callout") -> parseCallout(block)
          [] type = JStr("divider") -> parseDivider(block)
          [] type = JStr("image") -> parseImage(block)
          [] type = JStr("bookmark") -> parseBookmark(block)
          [] type = JStr("toggle") -> parseToggle(block)
          [] type = JStr("to_do") -> parseToDo(block)
          [] OTHER -> Null

\* { id: block.id, block: parsedBlock, children: [] }
blockWithMetadata(block, parsedBlock) ==
    JObj([id |-> Prop(block, "id"), block |-> parsedBlock,
          children |-> JArr(<<>>)])

\* the blocks pushed by the rounds i.. of the for loop of parseBlocks, in
\* the order of the rounds: a round pushes when parseBlock gave a block
pushedFrom(blocks, i) ==
    LET Pushes(j) == j >= i /\ Truthy(parseBlock(blocks[j]))
        rounds == SelectSeq([j \in 1..Len(blocks) |-> j], Pushes)
    IN  [n \in 1..Len(rounds) |->
            blockWithMetadata(blocks[rounds[n]], parseBlock(blocks[rounds[n]]))]

\* unshift in place of push: the output comes out in reverse
parseBlocksFrom_unshift(blocks, i, parsedBlocks) ==
    IF \E j \in i..Len(blocks) : IsThrow(parseBlock(blocks[j])) THEN Throw
    ELSE LET pushed == pushedFrom(blocks, i)
         IN  JArr([n \in 1..Len(pushed) |-> pushed[Len(pushed) + 1 - n]]
                  \o parsedBlocks)

\* the for loop of parseBlocks over blocks[i..], pushing onto the
\* accumulator; an exception of parseBlock leaves the loop.  The loop is
\* written in closed form, so that a page of 100 records is within reach of
\* the evaluator
parseBlocksFrom(blocks, i, parsedBlocks) ==
    IF \E j \in i..Len(blocks) : IsThrow(parseBlock(blocks[j])) THEN Throw
    ELSE JArr(parsedBlocks \o pushedFrom(blocks, i))

\* for...of over a value that is not iterable raises a TypeError
parseBlocks(blocks) ==
    IF ~IsArray(blocks) THEN Throw ELSE parseBlocksFrom(blocks.a, 1, <<>>)

-----------------------------------------------------------------------------
(* Inputs of the rich-text normalizer *)

FlagVals == {Undef, JTrue, JFalse}
ColorVals == {Undef, JStr(""), JStr("blue")}

AnnotationObjs ==
    {JObj([bold |-> b, italic |-> i, strikethrough |-> s, underline |-> u,
           code |-> c, color |-> col]) :
        b \in FlagVals, i \in FlagVals, s \in FlagVals, u \in FlagVals,
        c \in FlagVals, col \in ColorVals}

FullAnnotations ==
    JObj([bold |-> JTrue, italic |-> JFalse, strikethrough |-> JFalse,
          underline |-> JTrue, code |-> JFalse, color |-> JStr("blue")])

TextVals ==
    {Undef, Null,
     JObj([content |-> JStr("t"), link |-> Undef]),
     JObj([content |-> JStr("t"), link |-> Null]),
     JObj([content |-> JStr("t"), link |-> JObj([url |-> Undef])]),
     JObj([content |-> JStr("t"), link |-> JObj([url |-> JStr("")])]),
     JObj([content |-> JStr("t"),
           link |-> JObj([url |-> JStr("https://example.com")])])}

PlainTextVals == {Undef, JStr(""), JStr("Hello")}
HrefVals == {Undef, Null, JStr("https://href.example")}

Run(plain, text, href, ann) ==
    JObj([plain_text |-> plain, text |-> text, href |-> href,
          annotations |-> ann])

\* one run for every shape of the annotations object
AnnotationRuns ==
    {Run(JStr("Hello"), Undef, Undef, ann) :
        ann \in AnnotationObjs \cup {Undef, Null}}

\* one run for every shape of the text / link / href fields
LinkRuns ==
    {Run(p, t, h, ann) : p \in PlainTextVals, t \in TextVals, h \in HrefVals,
                         ann \in {Undef, FullAnnotations}}

\* the elements arrays of every length up to MaxRuns are built from
SeqElems ==
    {Run(JStr("Normal "), Undef, Undef, Undef),
     Run(JStr("bold "), Undef, Undef, FullAnnotations),
     Run(Undef, Undef, Undef, Null),
     EmptyObj, Null, Undef, JNum(5), JStr("text")}

SeqsUpTo(S, n) == UNION {[1..m -> S] : m \in 0..n}

RichTextArrays ==
    {JArr(s) : s \in SeqsUpTo(SeqElems, MaxRuns)}
    \cup {JArr(<<r>>) : r \in AnnotationRuns \cup LinkRuns}

NonArrayInputs ==
    {Undef, Null, JStr(""), JStr("text"), JNum(0), JNum(5), JTrue, JFalse,
     EmptyObj, Run(JStr("Hello"), Undef, Undef, FullAnnotations)}

RichTextInputs == RichTextArrays \cup NonArrayInputs

-----------------------------------------------------------------------------
(* Calls of the parser functions *)

FetchIdle ==
    /\ phase = "idle"
    /\ stack = <<>>
    /\ pending = Undef
    /\ nextId = 0
    /\ calls = <<>>
    /\ listed = <<>>
    /\ failed = FALSE
    /\ result = NotCalled

-----------------------------------------------------------------------------
(* Inputs of the block parser *)

RecognizedTypes ==
    {"paragraph", "heading_1", "heading_2", "heading_3", "bulleted_list_item",
     "numbered_list_item", "quote", "code", "callout", "divider", "image",
     "bookmark", "toggle", "to_do"}

\* type values the switch has no case for (undefined: the record has no type)
UnrecognizedTypeVals ==
    {Undef, Null, JStr("table"), JStr("unsupported"), JStr("heading_4"),
     JStr("Paragraph"), JStr(""), JNum(1)}

HelloRun == Run(JStr("Hello"), Undef, Undef, FullAnnotations)
WorldRun == Run(JStr(" World"), Undef, Undef, Undef)
NoTextRun == Run(Undef, Undef, Undef, Undef)

\* a rich_text / caption field: absent, null, not an array, an array
RichTextFieldVals ==
    {Undef, Null, JStr("x"), EmptyObj, JArr(<<>>), JArr(<<HelloRun>>),
     JArr(<<HelloRun, WorldRun>>), JArr(<<WorldRun, NoTextRun, HelloRun>>)}

CaptionFieldVals == {Undef, JStr("x"), JArr(<<HelloRun>>)}
HasChildrenVals == {Undef, JTrue, JFalse}
UrlHolderVals ==
    {Undef, Null, EmptyObj, JObj([url |-> JStr("")]),
     JObj([url |-> JStr("https://example.com/i.png")])}

\* the nested object a record of the given type carries under its type name
NestedVals(type) ==
    {Undef, Null, EmptyObj} \cup
    CASE type \in {"paragraph", "bulleted_list_item", "numbered_list_item",
                   "quote", "toggle"} ->
            {JObj([rich_text |-> r]) : r \in RichTextFieldVals}
      [] type \in {"heading_1", "heading_2", "heading_3"} ->
            {JObj([rich_text |-> r, is_toggleable |-> t]) :
                r \in RichTextFieldVals, t \in {Undef, JTrue}}
      [] type = "code" ->
            {JObj([rich_text |-> r, language |-> l, caption |-> c]) :
                r \in RichTextFieldVals, l \in {Undef, JStr(""), JStr("typescript")},
                c \in CaptionFieldVals}
      [] type = "callout" ->
            {JObj([rich_text |-> r, icon |-> i, color |-> c]) :
                r \in {Undef, JStr("x"), JArr(<<HelloRun>>)},
                i \in {Undef, Null,
                       JObj([type |-> JStr("emoji"), emoji |-> JStr("!")]),
                       JObj([type |-> JStr("external"),
                             external |-> JObj([url |-> JStr("https://example.com/i.png")])]),
                       JObj([type |-> JStr("file")])},
                c \in {Undef, JStr("blue")}}
      [] type = "image" ->
            {JObj([type |-> t, external |-> e, file |-> f, caption |-> c]) :
                t \in {Undef, JStr("external"), JStr("file")},
                e \in UrlHolderVals, f \in UrlHolderVals, c \in CaptionFieldVals}
      [] type = "bookmark" ->
            {JObj([url |-> u, caption |-> c]) :
                u \in {Undef, JStr(""), JStr("https://example.com")},
                c \in CaptionFieldVals \cup {EmptyObj}}
      [] type = "to_do" ->
            {JObj([rich_text |-> r, checked |-> c]) :
                r \in RichTextFieldVals, c \in {Undef, JTrue, JFalse}}
      [] OTHER -> {}

\* { id, type, has_children, [type]: nested }
RawBlock(id, type, hasChildren, nested) ==
    JObj([id |-> JStr(id), type |-> JStr(type), has_children |-> hasChildren])
    @@ (type :> nested)

BlockInputs ==
    UNION {{RawBlock("b", t, h, n) : h \in HasChildrenVals, n \in NestedVals(t)} :
              t \in RecognizedTypes}
    \cup {JObj([id |-> JStr("b"), type |-> t, has_children |-> JTrue,
                paragraph |-> JObj([rich_text |-> JArr(<<HelloRun>>)])]) :
            t \in UnrecognizedTypeVals}
    \cup {EmptyObj}

\* the records block arrays of every length up to MaxBlocks are built from;
\* position i of an array gets the id "b<i>"
BlockSeqKinds ==
    {<<"paragraph", JObj([rich_text |-> JArr(<<HelloRun>>)])>>,
     <<"heading_1", JObj([rich_text |-> JArr(<<HelloRun>>)])>>,
     <<"divider", EmptyObj>>,
     <<"unsupported", EmptyObj>>,
     <<"image", JObj([type |-> JStr("external")])>>,
     <<"image", JObj([type |-> JStr("file"),
                      file |-> JObj([url |-> JStr("https://example.com/i.png")])])>>,
     <<"code", JObj([rich_text |-> JStr("x")])>>}

BlockArrays ==
    {JArr([i \in 1..Len(kinds) |->
              RawBlock("b" \o ToString(i), kinds[i][1], JTrue, kinds[i][2])]) :
        kinds \in SeqsUpTo(BlockSeqKinds, MaxBlocks)}

\* no call of getPostById, getPostWithBlocks or BlogPostPage
PostIdle ==
    /\ postPc = "idle"
    /\ retrieves = 0
    /\ pageResponse = NotCalled
    /\ post = NotCalled
    /\ joined = NotCalled
    /\ view = "none"

\* the pure functions are called with the module loaded and nothing fetched
NothingFetched ==
    /\ FetchIdle
    /\ PostIdle
    /\ apiKey = TRUE
    /\ source = {}
    /\ overflow = {}

InitRichText ==
    /\ op = "none"
    /\ arg \in RichTextInputs
    /\ ret = NotCalled
    /\ NothingFetched

CallParseRichText ==
    /\ op = "none"
    /\ op' = "parseRichText"
    /\ ret' = parseRichText(arg)
    /\ UNCHANGED <<arg, fetchVars, envVars, postVars, pageVars>>

NextRichText == CallParseRichText

SpecRichText == InitRichText /\ [][NextRichText]_vars

InitParser ==
    /\ op = "none"
    /\ arg \in BlockInputs \cup BlockArrays
    /\ ret = NotCalled
    /\ NothingFetched

CallParseBlock ==
    /\ op = "none"
    /\ ~IsArray(arg)
    /\ op' = "parseBlock"
    /\ ret' = parseBlock(arg)
    /\ UNCHANGED <<arg, fetchVars, envVars, postVars, pageVars>>

CallParseBlocks ==
    /\ op = "none"
    /\ IsArray(arg)
    /\ op' = "parseBlocks"
    /\ ret' = parseBlocks(arg)
    /\ UNCHANGED <<arg, fetchVars, envVars, postVars, pageVars>>

NextParser == CallParseBlock \/ CallParseBlocks

SpecParser == InitParser /\ [][NextParser]_vars

-----------------------------------------------------------------------------
(* The external API: notion.blocks.children.list *)

PageId == JStr("page")

\* the source records a children listing is made of: a record of every
\* block variant with has_children set (one heading level stands for the
\* three, which parseBlock sends to the same parser), a paragraph without,
\* a type the parser does not know, and a code record whose rich_text is
\* not an array
SourceKinds ==
    {<<t, JTrue, EmptyObj>> :
        t \in RecognizedTypes \ {"image", "heading_2", "heading_3"}}
    \cup {<<"image", JTrue,
            JObj([type |-> JStr("file"),
                  file |-> JObj([url |-> JStr("https://example.com/i.png")])])>>,
          <<"paragraph", JFalse, EmptyObj>>,
          <<"unsupported", JTrue, EmptyObj>>,
          <<"code", JFalse, JObj([rich_text |-> JStr("x")])>>}

Min(a, b) == IF a <= b THEN a ELSE b

\* the children the source holds under one block: up to MaxChildren records
\* with fresh ids, the source holding no more than MaxNodes records in all
Listings(first) ==
    {[i \in 1..Len(kinds) |->
         RawBlock("b" \o ToString(first + i), kinds[i][1], kinds[i][2], kinds[i][3])] :
        kinds \in SeqsUpTo(source, Min(MaxChildren, MaxNodes - first))}

\* one long list of children, of one kind that has no children itself
LongListings(first) ==
    IF first > MaxNodes THEN {}
    ELSE {[i \in 1..n |->
              RawBlock("b" \o ToString(first + i), kind[1], kind[2], kind[3])] :
             n \in overflow, kind \in {k \in source : k[2] # JTrue}}

\* the page size is twice the one asked for
page_size_double == 100 + 100

\* page_size: 100 of the request
page_size == 100

\* the response to children.list: the first page of the children, whether
\* there are more, and (on the side of the source) the children past it
ChildrenList(blockId, children) ==
    <<blockId,
      SubSeq(children, 1, Min(Len(children), page_size)),
      Len(children) > page_size,
      SubSeq(children, page_size + 1, Len(children))>>

-----------------------------------------------------------------------------
(* api/post-detail.ts: getPageBlocks and fetchBlocksRecursively *)

ChildrenCapableTypes ==
    {JStr("paragraph"), JStr("bulleted_list_item"), JStr("numbered_list_item"),
     JStr("toggle"), JStr("to_do")}

\* the two conditions left out: the children of every block are fetched
shouldFetchChildren_everyBlock(node) == TRUE

\* the flag is not looked at
shouldFetchChildren_ignoreFlag(node) ==
    node.block.type \in ChildrenCapableTypes

\* the two nested conditions of the for loop of fetchBlocksRecursively
shouldFetchChildren(node) ==
    /\ node.block.type \in ChildrenCapableTypes
    /\ Truthy(Prop(node.block, "hasChildren"))

\* an activation of fetchBlocksRecursively(blockId): at "list" it awaits the
\* listing, at "loop" it is at blocks[i] of the for loop, at "child" it
\* awaits the recursive call for blocks[i]
Frame(blockId, blocks, i, pc) ==
    [blockId |-> blockId, blocks |-> blocks, i |-> i, pc |-> pc]

Top == stack[Len(stack)]
Caller == stack[Len(stack) - 1]
ReplaceTop(frame) == [stack EXCEPT ![Len(stack)] = frame]

\* the catch of getPageBlocks: every awaiting activation is abandoned
CaughtByGetPageBlocks ==
    /\ stack' = <<>>
    /\ pending' = Undef
    /\ result' = JArr(<<>>)
    /\ phase' = "done"

\* getPageBlocks(pageId) up to the await of the first listing: the try block
\* is entered and the listing of the page is asked for at once
StartGetPageBlocks ==
    /\ phase' = "running"
    /\ stack' = <<Frame(PageId, <<>>, 0, "list")>>
    /\ pending' = PageId
    /\ calls' = <<PageId>>
    /\ UNCHANGED <<nextId, listed, failed, result>>

\* a call of getPageBlocks(pageId) on its own
GetPageBlocks ==
    /\ phase = "idle"
    /\ StartGetPageBlocks
    /\ UNCHANGED <<parserVars, envVars, postVars, pageVars>>

\* the listing resolves; parseBlocks(response.results) runs
ListResolves ==
    /\ phase = "running"
    /\ Top.pc = "list"
    /\ \E children \in Listings(nextId) \cup LongListings(nextId) :
          LET response == ChildrenList(Top.blockId, children)
              blocks == parseBlocks(JArr(response[2]))
          IN  /\ nextId' = nextId + Len(children)
              /\ listed' = Append(listed, response)
              /\ IF IsThrow(blocks)
                 THEN CaughtByGetPageBlocks
                 ELSE /\ stack' = ReplaceTop(Frame(Top.blockId, blocks.a, 1, "loop"))
                      /\ pending' = Undef
                      /\ UNCHANGED <<phase, result>>
    /\ UNCHANGED <<parserVars, envVars, postVars, pageVars, calls, failed>>

\* the rejection is caught inside fetchBlocksRecursively, which goes on
\* with no blocks for this parent
ListRejects_caughtInside ==
    /\ phase = "running"
    /\ Top.pc = "list"
    /\ failed' = TRUE
    /\ stack' = ReplaceTop(Frame(Top.blockId, <<>>, 1, "loop"))
    /\ pending' = Undef
    /\ UNCHANGED <<parserVars, envVars, postVars, pageVars, phase, nextId, calls, listed, result>>

\* the listing rejects
ListRejects ==
    /\ phase = "running"
    /\ Top.pc = "list"
    /\ failed' = TRUE
    /\ CaughtByGetPageBlocks
    /\ UNCHANGED <<parserVars, envVars, postVars, pageVars, nextId, calls, listed>>

\* the recursive call is not awaited: the loop goes on to the next block
FetchChildren_noAwait ==
    /\ phase = "running"
    /\ Top.pc = "loop"
    /\ Top.i <= Len(Top.blocks)
    /\ shouldFetchChildren(Top.blocks[Top.i])
    /\ stack' = ReplaceTop([Top EXCEPT !.i = @ + 1])
    /\ pending' = Top.blocks[Top.i].id
    /\ calls' = Append(calls, Top.blocks[Top.i].id)
    /\ UNCHANGED <<parserVars, envVars, postVars, pageVars, phase, nextId, listed, failed, result>>

\* one round of the for loop on a block whose children are fetched: the
\* recursive call runs up to the await of its listing
FetchChildren ==
    /\ phase = "running"
    /\ Top.pc = "loop"
    /\ Top.i <= Len(Top.blocks)
    /\ shouldFetchChildren(Top.blocks[Top.i])
    /\ stack' = Append(ReplaceTop([Top EXCEPT !.pc = "child"]),
                       Frame(Top.blocks[Top.i].id, <<>>, 0, "list"))
    /\ pending' = Top.blocks[Top.i].id
    /\ calls' = Append(calls, Top.blocks[Top.i].id)
    /\ UNCHANGED <<parserVars, envVars, postVars, pageVars, phase, nextId, listed, failed, result>>

\* the loop stays on the block
SkipChildren_noAdvance ==
    /\ phase = "running"
    /\ Top.pc = "loop"
    /\ Top.i <= Len(Top.blocks)
    /\ ~shouldFetchChildren(Top.blocks[Top.i])
    /\ UNCHANGED vars

\* one round of the for loop on a block whose children are not fetched
SkipChildren ==
    /\ phase = "running"
    /\ Top.pc = "loop"
    /\ Top.i <= Len(Top.blocks)
    /\ ~shouldFetchChildren(Top.blocks[Top.i])
    /\ stack' = ReplaceTop([Top EXCEPT !.i = @ + 1])
    /\ UNCHANGED <<parserVars, envVars, postVars, pageVars, phase, pending, nextId, calls, listed, failed, result>>

\* return blocks, to the activation that awaits it:
\* block.children = await fetchBlocksRecursively(block.id)
ReturnToCaller ==
    /\ phase = "running"
    /\ Top.pc = "loop"
    /\ Top.i > Len(Top.blocks)
    /\ Len(stack) > 1
    /\ stack' = [SubSeq(stack, 1, Len(stack) - 1) EXCEPT ![Len(stack) - 1] =
                    [Caller EXCEPT
                        !.blocks[Caller.i].children = JArr(Top.blocks),
                        !.i = @ + 1,
                        !.pc = "loop"]]
    /\ UNCHANGED <<parserVars, envVars, postVars, pageVars, phase, pending, nextId, calls, listed, failed, result>>

\* return blocks, to getPageBlocks, which returns them
ReturnToGetPageBlocks ==
    /\ phase = "running"
    /\ Top.pc = "loop"
    /\ Top.i > Len(Top.blocks)
    /\ Len(stack) = 1
    /\ stack' = <<>>
    /\ result' = JArr(Top.blocks)
    /\ phase' = "done"
    /\ UNCHANGED <<parserVars, envVars, postVars, pageVars, pending, nextId, calls, listed, failed>>

ParserIdle ==
    /\ op = "none"
    /\ arg = Undef
    /\ ret = NotCalled

Init ==
    /\ ParserIdle
    /\ FetchIdle
    /\ PostIdle
    /\ apiKey = TRUE
    /\ source = SourceKinds
    /\ overflow = {}

Next ==
    \/ GetPageBlocks
    \/ ListResolves
    \/ ListRejects
    \/ FetchChildren
    \/ SkipChildren
    \/ ReturnToCaller
    \/ ReturnToGetPageBlocks

Spec == Init /\ [][Next]_vars

\* runs against a source that holds a list of children as long as a page,
\* and one longer by one
InitPaging ==
    /\ ParserIdle
    /\ FetchIdle
    /\ PostIdle
    /\ apiKey = TRUE
    /\ source = {<<"paragraph", JTrue, EmptyObj>>,
                 <<"divider", JFalse, EmptyObj>>,
                 <<"unsupported", JFalse, EmptyObj>>}
    /\ overflow = {page_size, page_size + 1}

SpecPaging == InitPaging /\ [][Next]_vars

\* runs against a source of the records that decide where the fetcher
\* descends: two children-capable variants with has_children true, one
\* with has_children false, and with has_children true a leaf-only
\* variant, an image that holds no url and a type the parser does not know
InitDescent ==
    /\ ParserIdle
    /\ FetchIdle
    /\ PostIdle
    /\ apiKey = TRUE
    /\ source = {<<"paragraph", JTrue, EmptyObj>>,
                 <<"toggle", JTrue, EmptyObj>>,
                 <<"paragraph", JFalse, EmptyObj>>,
                 <<"quote", JTrue, EmptyObj>>,
                 <<"image", JTrue, EmptyObj>>,
                 <<"unsupported", JTrue, EmptyObj>>}
    /\ overflow = {}

SpecDescent == InitDescent /\ [][Next]_vars

-----------------------------------------------------------------------------
(* api/notion-parser.ts: NotionPost *)

\* a ?? b
Nullish(a, b) == IF IsNullish(a) THEN b ELSE a

\* o?.[i] on null, undefined, an array, or a value without indexed
\* properties (a string is not among the values a title is drawn from)
OptIndex(o, i) ==
    IF IsArray(o) /\ i < Len(o.a) THEN o.a[i + 1] ELSE Undef

\* prop?.title?.[0]?.plain_text ?? ""
getTitle(prop) ==
    Nullish(OptMember(OptIndex(OptMember(prop, "title"), 0), "plain_text"), JStr(""))

\* prop?.date?.start ?? ""
getDate(prop) ==
    Nullish(OptMember(OptMember(prop, "date"), "start"), JStr(""))

\* prop?.status?.name ?? ""
getStatus(prop) ==
    Nullish(OptMember(OptMember(prop, "status"), "name"), JStr(""))

\* prop?.select?.name ?? null
getSeries(prop) ==
    Nullish(OptMember(OptMember(prop, "select"), "name"), Null)

\* prop?.multi_select?.map((item) => item.name) ?? [] : the optional chain
\* stops at a null or undefined multi_select; map is called on anything
\* else, and item.name is read without optional chaining
getCategories(prop) ==
    LET multi_select == OptMember(prop, "multi_select")
    IN  IF IsNullish(multi_select) THEN JArr(<<>>)
        ELSE IF ~IsArray(multi_select) THEN Throw
        ELSE IF \E i \in 1..Len(multi_select.a) : IsNullish(multi_select.a[i])
             THEN Throw
             ELSE JArr([i \in 1..Len(multi_select.a) |->
                            Prop(multi_select.a[i], "name")])

\* cover.type === "file" ? cover.file.url : cover.external.url
getCover(page) ==
    LET cover == Prop(page, "cover")
    IN  IF ~Truthy(cover) THEN Null
        ELSE IF Prop(cover, "type") = JStr("file")
             THEN Member(Prop(cover, "file"), "url")
             ELSE Member(Prop(cover, "external"), "url")

\* new NotionPost(page): props.title raises a TypeError when the page has
\* no properties, and so does whatever getCategories or getCover raises
NotionPost(page) ==
    LET props == Member(page, "properties")
        categories == getCategories(Member(props, "categories"))
        thumbnail == getCover(page)
    IN  IF IsThrow(props) \/ IsNullish(props) THEN Throw
        ELSE IF IsThrow(categories) \/ IsThrow(thumbnail) THEN Throw
        ELSE JObj([id |-> Prop(page, "id"),
                   title |-> getTitle(Prop(props, "title")),
                   status |-> getStatus(Prop(props, "status")),
                   createdDate |-> getDate(Prop(props, "created_date")),
                   series |-> getSeries(Prop(props, "series")),
                   categories |-> categories,
                   thumbnail |-> thumbnail])

-----------------------------------------------------------------------------
(* The external API: notion.pages.retrieve *)

\* an object with the field f, or without it when v is undefined
OptField(f, v) == IF v = Undef THEN <<>> ELSE f :> v

\* the values of a property of a page: absent, without its value, with it
PropertyVals(name) ==
    {Undef} \cup
    CASE name = "title" ->
            {JObj([title |-> JArr(<<>>)]),
             JObj([title |-> JArr(<<JObj([plain_text |-> JStr("Hello")])>>)])}
      [] name = "status" ->
            {JObj([status |-> Null]),
             JObj([status |-> JObj([name |-> JStr("Published")])])}
      [] name = "created_date" ->
            {JObj([date |-> Null]),
             JObj([date |-> JObj([start |-> JStr("2024-01-15")])])}
      [] name = "series" ->
            {JObj([select |-> Null]),
             JObj([select |-> JObj([name |-> JStr("React")])])}
      [] name = "categories" ->
            {JObj([multi_select |-> JArr(<<>>)]),
             JObj([multi_select |-> JArr(<<JObj([name |-> JStr("a")]),
                                           JObj([name |-> JStr("b")])>>)])}

\* a cover that carries its type tag without the sub-object of that type
TagOnlyCovers ==
    {JObj([type |-> JStr("file")]),
     JObj([type |-> JStr("external")]),
     JObj([type |-> JStr("file"),
           external |-> JObj([url |-> JStr("https://example.com/e.png")])])}

\* absent, null, with the sub-object of its type, or without
CoverVals ==
    {Undef, Null,
     JObj([type |-> JStr("file"),
           file |-> JObj([url |-> JStr("https://example.com/f.png")])]),
     JObj([type |-> JStr("external"),
           external |-> JObj([url |-> JStr("https://example.com/e.png")])])}
    \cup TagOnlyCovers

\* the properties object of a page: each property is there or not
Properties(title, status, created_date, series, categories) ==
    JObj(OptField("title", title) @@ OptField("status", status)
         @@ OptField("created_date", created_date)
         @@ OptField("series", series) @@ OptField("categories", categories))

Page(properties, cover) ==
    JObj(("id" :> PageId) @@ OptField("properties", properties)
         @@ OptField("cover", cover))

PropertiesVals ==
    {Properties(t, st, d, se, c) :
        t \in PropertyVals("title"), st \in PropertyVals("status"),
        d \in PropertyVals("created_date"), se \in PropertyVals("series"),
        c \in PropertyVals("categories")}

\* the page records NotionPost is constructed from
PageRecords ==
    {Page(props, cover) : props \in PropertiesVals \cup {Undef}, cover \in CoverVals}

\* what notion.pages.retrieve may resolve to: a page with every property
\* and a cover, a page with none, a page without its properties object, and
\* a page whose cover lacks its sub-object
RetrievedPages ==
    LET full ==
            Properties(JObj([title |-> JArr(<<JObj([plain_text |-> JStr("Hello")])>>)]),
                       JObj([status |-> JObj([name |-> JStr("Published")])]),
                       JObj([date |-> JObj([start |-> JStr("2024-01-15")])]),
                       JObj([select |-> JObj([name |-> JStr("React")])]),
                       JObj([multi_select |-> JArr(<<JObj([name |-> JStr("a")])>>)]))
    IN  {Page(full, JObj([type |-> JStr("external"),
                          external |-> JObj([url |-> JStr("https://example.com/e.png")])])),
         Page(EmptyObj, Null),
         Page(Undef, Null),
         Page(full, JObj([type |-> JStr("file")]))}

-----------------------------------------------------------------------------
(* api/post-detail.ts: getPostById and getPostWithBlocks;                  *)
(* app/blog/[id]/page.tsx: BlogPostPage                                    *)

\* the source of the page runs: a paragraph with children, a divider, and a
\* code record whose rich_text is not an array
PageSourceKinds ==
    {<<"paragraph", JTrue, EmptyObj>>,
     <<"divider", JFalse, EmptyObj>>,
     <<"code", JFalse, JObj([rich_text |-> JStr("x")])>>}

\* the try block without its catch
postOfPage_noCatch(page) == NotionPost(page)

\* try { return new NotionPost(page) } catch { return null }
postOfPage(page) ==
    IF IsThrow(NotionPost(page)) THEN Null ELSE NotionPost(page)

\* getPostById(pageId) up to its first await: without NOTION_API_KEY it
\* returns null at once, with it notion.pages.retrieve is called
StartGetPostById ==
    /\ IF ~apiKey
       THEN /\ post' = Null
            /\ postPc' = "done"
            /\ UNCHANGED retrieves
       ELSE /\ postPc' = "retrieve"
            /\ retrieves' = retrieves + 1
            /\ UNCHANGED post
    /\ UNCHANGED pageResponse

\* getPostWithBlocks(pageId): the two calls inside Promise.all([...]) run
\* one after the other, each up to its first await
GetPostWithBlocks ==
    /\ postPc = "idle"
    /\ phase = "idle"
    /\ StartGetPostById
    /\ StartGetPageBlocks
    /\ UNCHANGED <<parserVars, envVars, pageVars>>

\* notion.pages.retrieve resolves with a page
RetrieveResolves ==
    /\ postPc = "retrieve"
    /\ \E page \in RetrievedPages :
          /\ pageResponse' = page
          /\ post' = postOfPage(page)
    /\ postPc' = "done"
    /\ UNCHANGED <<parserVars, fetchVars, envVars, pageVars, retrieves>>

\* notion.pages.retrieve rejects: caught, null
RetrieveRejects ==
    /\ postPc = "retrieve"
    /\ pageResponse' = Throw
    /\ post' = Null
    /\ postPc' = "done"
    /\ UNCHANGED <<parserVars, fetchVars, envVars, pageVars, retrieves>>

\* the promise settles as soon as one of the two calls has returned
PromiseAllSettles_firstDone ==
    /\ postPc = "done" \/ phase = "done"
    /\ joined = NotCalled
    /\ joined' = IF IsThrow(post) \/ IsThrow(result)
                 THEN Throw
                 ELSE JObj([post |-> post, blocks |-> result])
    /\ UNCHANGED <<parserVars, fetchVars, envVars, postVars, view>>

\* Promise.all settles once both calls have: it rejects when one of them
\* does, else getPostWithBlocks returns { post, blocks }
PromiseAllSettles ==
    /\ postPc = "done"
    /\ phase = "done"
    /\ joined = NotCalled
    /\ joined' = IF IsThrow(post) \/ IsThrow(result)
                 THEN Throw
                 ELSE JObj([post |-> post, blocks |-> result])
    /\ UNCHANGED <<parserVars, fetchVars, envVars, postVars, view>>

\* the article is given up when there are no blocks either
pathOfPage_needsBlocks(postAndBlocks) ==
    IF IsThrow(postAndBlocks) THEN "error"
    ELSE IF ~Truthy(postAndBlocks.post) \/ postAndBlocks.blocks = JArr(<<>>)
         THEN "notFound"
         ELSE "article"

\* if (!post) { notFound(); }  return <article>...: notFound() of
\* next/navigation does not return, it raises the not-found signal
pathOfPage(postAndBlocks) ==
    IF IsThrow(postAndBlocks) THEN "error"
    ELSE IF ~Truthy(postAndBlocks.post) THEN "notFound"
         ELSE "article"

\* BlogPostPage after await getPostWithBlocks(id)
BlogPostPage ==
    /\ joined # NotCalled
    /\ view = "none"
    /\ view' = pathOfPage(joined)
    /\ UNCHANGED <<parserVars, fetchVars, envVars, postVars, joined>>

InitPage ==
    /\ ParserIdle
    /\ FetchIdle
    /\ PostIdle
    /\ apiKey \in BOOLEAN
    /\ source = PageSourceKinds
    /\ overflow = {}

NextPage ==
    \/ GetPostWithBlocks
    \/ RetrieveResolves
    \/ RetrieveRejects
    \/ ListResolves
    \/ ListRejects
    \/ FetchChildren
    \/ SkipChildren
    \/ ReturnToCaller
    \/ ReturnToGetPageBlocks
    \/ PromiseAllSettles
    \/ BlogPostPage

SpecPage == InitPage /\ [][NextPage]_vars

\* every external call returns or fails in the end, and a continuation
\* that can run is run: the steps of the block fetch, of the metadata
\* fetch, and of the code awaiting both
FairPage ==
    /\ WF_vars(ListResolves \/ ListRejects)
    /\ WF_vars(FetchChildren \/ SkipChildren \/ ReturnToCaller
                  \/ ReturnToGetPageBlocks)
    /\ WF_vars(RetrieveResolves \/ RetrieveRejects)
    /\ WF_vars(GetPostWithBlocks \/ PromiseAllSettles \/ BlogPostPage)

SpecPageLive == SpecPage /\ FairPage

-----------------------------------------------------------------------------
(* Calls of new NotionPost(page) *)

InitPost ==
    /\ op = "none"
    /\ arg \in PageRecords
    /\ ret = NotCalled
    /\ NothingFetched

CallNotionPost ==
    /\ op = "none"
    /\ op' = "NotionPost"
    /\ ret' = NotionPost(arg)
    /\ UNCHANGED <<arg, fetchVars, envVars, postVars, pageVars>>

SpecPost == InitPost /\ [][CallNotionPost]_vars

-----------------------------------------------------------------------------
(* api/blocks/block-renderer.tsx: the markup, and RichTextRenderer *)

\* an element: its tag, its attributes as <<name, value>> pairs, and its
\* child nodes; a text node is the string itself
El(tag, attrs, kids) == [k |-> "el", tag |-> tag, attrs |-> attrs, kids |-> kids]

\* <>...</> : the nodes a component puts in place of itself
Fragment(kids) == [k |-> "frag", kids |-> kids]

ClassName(name) == {<<"className", JStr(name)>>}

\* if (flag) { element = <tag>{element}</tag> }
Wrap(flag, tag, attrs, element) ==
    IF Truthy(flag) THEN El(tag, attrs, <<element>>) ELSE element

\* the two lines swapped: italic is applied before bold
emphasized_italicFirst(text) ==
    Wrap(text.annotations.bold, "strong", {},
         Wrap(text.annotations.italic, "em", {}, text.content))

\* element = textContent, then the bold and the italic wrapper
emphasized(text) ==
    Wrap(text.annotations.italic, "em", {},
         Wrap(text.annotations.bold, "strong", {}, text.content))

\* the five wrappers in the order strikethrough, underline, italic, bold,
\* inline code
styled_strikethroughFirst(text) ==
    Wrap(text.annotations.code, "code", ClassName("inline-code"),
         Wrap(text.annotations.bold, "strong", {},
              Wrap(text.annotations.italic, "em", {},
                   Wrap(text.annotations.underline, "u", {},
                        Wrap(text.annotations.strikethrough, "s", {},
                             text.content)))))

\* the five annotation wrappers, each around what the ones before it made
styled(text) ==
    Wrap(text.annotations.code, "code", ClassName("inline-code"),
         Wrap(text.annotations.underline, "u", {},
              Wrap(text.annotations.strikethrough, "s", {},
                   emphasized(text))))

\* the link is tested against undefined instead of for truth
linked_ifDefined(link, element) ==
    IF link # Undef
    THEN El("a", {<<"href", link>>, <<"target", JStr("_blank")>>,
                  <<"rel", JStr("noopener noreferrer")>>}, <<element>>)
    ELSE element

\* if (link) { element = <a href={link} target="_blank" rel=...>{element}</a> }
linked(link, element) ==
    IF Truthy(link)
    THEN El("a", {<<"href", link>>, <<"target", JStr("_blank")>>,
                  <<"rel", JStr("noopener noreferrer")>>}, <<element>>)
    ELSE element

\* the arrow function given to content.map (the key is not markup)
renderedSpan(text) ==
    El("span", {}, <<linked(Prop(text, "link"), styled(text))>>)

\* RichTextRenderer({ content }): content.map on what is not an array, and
\* the destructuring of a null or undefined span, raise a TypeError
RichTextRenderer(content) ==
    IF ~IsArray(content) THEN Throw
    ELSE IF \E i \in 1..Len(content.a) : IsNullish(content.a[i]) THEN Throw
    ELSE Fragment([i \in 1..Len(content.a) |-> renderedSpan(content.a[i])])

-----------------------------------------------------------------------------
(* api/blocks/block-renderer.tsx: the block renderers *)

\* the child nodes the expressions between the tags of an element come to:
\* a fragment gives its nodes, false, null and undefined give none
RECURSIVE ChildrenFrom(_, _)
ChildrenFrom(parts, i) ==
    IF i > Len(parts) THEN <<>>
    ELSE (CASE parts[i].k = "frag" -> parts[i].kids
            [] parts[i].k \in {"bool", "null", "undef"} -> <<>>
            [] OTHER -> <<parts[i]>>)
         \o ChildrenFrom(parts, i + 1)

\* <tag attrs>{parts}</tag> : an exception raised by a part leaves the
\* element unrendered
Element(tag, attrs, parts) ==
    IF \E i \in 1..Len(parts) : IsThrow(parts[i]) THEN Throw
    ELSE El(tag, attrs, ChildrenFrom(parts, 1))

\* {caption.length > 0 && (<tag className=...><RichTextRenderer .../></tag>)}
\* (.length of null or undefined raises; the captions rendered are arrays)
captionPart(tag, className, caption) ==
    IF IsNullish(caption) THEN Throw
    ELSE IF IsArray(caption) /\ Len(caption.a) > 0
         THEN Element(tag, ClassName(className), <<RichTextRenderer(caption)>>)
         ELSE JFalse

ParagraphBlockRenderer(block) ==
    Element("p", ClassName("notion-paragraph"),
            <<RichTextRenderer(Prop(block, "content"))>>)

\* every heading is rendered at level 1
HeadingBlockRenderer_alwaysH1(block) ==
    Element("h1", ClassName("notion-" \o ToJsString(Prop(block, "type"))),
            <<RichTextRenderer(Prop(block, "content"))>>)

HeadingBlockRenderer(block) ==
    LET HeadingTag == IF Prop(block, "type") = JStr("heading_1") THEN "h1"
                      ELSE IF Prop(block, "type") = JStr("heading_2") THEN "h2"
                      ELSE "h3"
    IN  Element(HeadingTag, ClassName("notion-" \o ToJsString(Prop(block, "type"))),
                <<RichTextRenderer(Prop(block, "content"))>>)

ListItemBlockRenderer(block) ==
    Element("li", ClassName("notion-" \o ToJsString(Prop(block, "type"))),
            <<RichTextRenderer(Prop(block, "content"))>>)

QuoteBlockRenderer(block) ==
    Element("blockquote", ClassName("notion-quote"),
            <<RichTextRenderer(Prop(block, "content"))>>)

CodeBlockRenderer(block) ==
    Element("div", ClassName("notion-code"),
        <<Element("pre", {},
              <<Element("code",
                        ClassName("language-" \o ToJsString(Prop(block, "language"))),
                        <<Prop(block, "content")>>)>>),
          captionPart("figcaption", "notion-code-caption", Prop(block, "caption"))>>)

\* "pushpin" stands for the pushpin character U+1F4CC, the text shown for
\* an icon that is not an emoji
CalloutBlockRenderer(block) ==
    LET icon == Prop(block, "icon")
    IN  Element("div",
            ClassName("notion-callout notion-callout-"
                          \o ToJsString(Prop(block, "color"))),
            <<IF Truthy(icon)
              THEN Element("span", ClassName("notion-callout-icon"),
                       <<IF Prop(icon, "type") = JStr("emoji")
                         THEN Prop(icon, "emoji") ELSE JStr("pushpin")>>)
              ELSE icon,
              Element("div", ClassName("notion-callout-content"),
                      <<RichTextRenderer(Prop(block, "content"))>>)>>)

DividerBlockRenderer == El("hr", ClassName("notion-divider"), <<>>)

ImageBlockRenderer(block) ==
    Element("figure", ClassName("notion-image"),
        <<El("img", {<<"src", Prop(block, "url")>>, <<"alt", JStr("")>>}, <<>>),
          captionPart("figcaption", "notion-image-caption", Prop(block, "caption"))>>)

BookmarkBlockRenderer(block) ==
    Element("a", {<<"href", Prop(block, "url")>>, <<"target", JStr("_blank")>>,
                  <<"rel", JStr("noopener noreferrer")>>,
                  <<"className", JStr("notion-bookmark")>>},
        <<Element("div", ClassName("notion-bookmark-title"), <<Prop(block, "url")>>),
          captionPart("div", "notion-bookmark-caption", Prop(block, "caption"))>>)

\* the children of a toggle are not rendered here
\* the children container put inside the disclosure element
ToggleBlockRenderer_childrenInside(block) ==
    Element("details", ClassName("notion-toggle"),
        <<Element("summary", {}, <<RichTextRenderer(Prop(block, "content"))>>),
          El("div", ClassName("notion-block-children"), <<>>)>>)

ToggleBlockRenderer(block) ==
    Element("details", ClassName("notion-toggle"),
        <<Element("summary", {}, <<RichTextRenderer(Prop(block, "content"))>>)>>)

ToDoBlockRenderer(block) ==
    Element("div", ClassName("notion-to-do"),
        <<El("input", {<<"type", JStr("checkbox")>>,
                       <<"checked", Prop(block, "checked")>>,
                       <<"readOnly", JTrue>>}, <<>>),
          Element("span",
                  ClassName(IF Truthy(Prop(block, "checked"))
                            THEN "notion-to-do-checked" ELSE ""),
                  <<RichTextRenderer(Prop(block, "content"))>>)>>)

\* the switch of BlockRenderer: case labels compare with ===
BlockRenderer(block) ==
    LET type == Member(block, "type")
    IN  CASE IsThrow(type) -> Throw
          [] type = JStr("paragraph") -> ParagraphBlockRenderer(block)
          [] type \in {JStr("heading_1"), JStr("heading_2"), JStr("heading_3")} ->
                HeadingBlockRenderer(block)
          [] type \in {JStr("bulleted_list_item"), JStr("numbered_list_item")} ->
                ListItemBlockRenderer(block)
          [] type = JStr("quote") -> QuoteBlockRenderer(block)
          [] type = JStr("code") -> CodeBlockRenderer(block)
          [] type = JStr("callout") -> CalloutBlockRenderer(block)
          [] type = JStr("divider") -> DividerBlockRenderer
          [] type = JStr("image") -> ImageBlockRenderer(block)
          [] type = JStr("bookmark") -> BookmarkBlockRenderer(block)
          [] type = JStr("toggle") -> ToggleBlockRenderer(block)
          [] type = JStr("to_do") -> ToDoBlockRenderer(block)
          [] OTHER -> Null

\* the container is rendered for every children array, the empty one too
hasChildGroup_alsoEmpty(children) == Truthy(children)

\* blockWithMeta.children && blockWithMeta.children.length > 0
hasChildGroup(children) ==
    Truthy(children) /\ IsArray(children) /\ Len(children.a) > 0

\* NotionBlocksRenderer({ blocks }): blocks.map raises on what is not an
\* array, blockWithMeta.id on a null or undefined node
RECURSIVE NotionBlocksRenderer(_)
NotionBlocksRenderer(blocks) ==
    IF ~IsArray(blocks) THEN Throw
    ELSE IF \E i \in 1..Len(blocks.a) : IsNullish(blocks.a[i]) THEN Throw
    ELSE Element("div", ClassName("notion-blocks"),
             [i \in 1..Len(blocks.a) |->
                 LET blockWithMeta == blocks.a[i]
                     children == Prop(blockWithMeta, "children")
                 IN  Element("div", ClassName("notion-block"),
                         <<BlockRenderer(Prop(blockWithMeta, "block")),
                           IF hasChildGroup(children)
                           THEN Element("div", ClassName("notion-block-children"),
                                        <<NotionBlocksRenderer(children)>>)
                           ELSE JFalse>>)])

-----------------------------------------------------------------------------
(* Calls of BlockRenderer and NotionBlocksRenderer: blocks and trees *)

\* the blocks parseBlock returns
ParsedBlocks == {parseBlock(b) : b \in BlockInputs} \ {Null, Throw}

\* blocks whose type is none of the 14 tags
OtherTagBlocks ==
    {JObj([type |-> JStr(t), content |-> JArr(<<>>)]) :
        t \in {"table", "unsupported", "heading_4", "Paragraph", ""}}
    \cup {EmptyObj}

\* the blocks the nodes of a tree carry: a paragraph, a toggle, a divider
\* and a block of another tag
TreeBlockKinds ==
    {parseBlock(RawBlock("b", "paragraph", JTrue,
                         JObj([rich_text |-> JArr(<<HelloRun>>)]))),
     parseBlock(RawBlock("b", "toggle", JTrue,
                         JObj([rich_text |-> JArr(<<WorldRun>>)]))),
     parseBlock(RawBlock("b", "divider", JFalse, EmptyObj)),
     JObj([type |-> JStr("table")])}

\* { id, block, children? }
Node(block, children) ==
    JObj(("id" :> JStr("n")) @@ ("block" :> block)
         @@ OptField("children", children))

\* the forests of at most n nodes; a node has its children array, empty
\* or not, or no children field
RECURSIVE Forests(_)
Forests(n) ==
    IF n = 0 THEN {<<>>}
    ELSE {<<>>} \cup
         UNION {{<<Node(block, children)>> \o rest :
                    block \in TreeBlockKinds,
                    children \in {JArr(f) : f \in Forests(j)} \cup {Undef},
                    rest \in Forests(n - 1 - j)} :
                j \in 0..(n - 1)}

InitRenderer ==
    /\ op = "none"
    /\ arg \in ParsedBlocks \cup OtherTagBlocks
                 \cup {JArr(f) : f \in Forests(MaxNodes)}
    /\ ret = NotCalled
    /\ NothingFetched

CallBlockRenderer ==
    /\ op = "none"
    /\ ~IsArray(arg)
    /\ op' = "BlockRenderer"
    /\ ret' = BlockRenderer(arg)
    /\ UNCHANGED <<arg, fetchVars, envVars, postVars, pageVars>>

CallNotionBlocksRenderer ==
    /\ op = "none"
    /\ IsArray(arg)
    /\ op' = "NotionBlocksRenderer"
    /\ ret' = NotionBlocksRenderer(arg)
    /\ UNCHANGED <<arg, fetchVars, envVars, postVars, pageVars>>

NextRenderer == CallBlockRenderer \/ CallNotionBlocksRenderer

SpecRenderer == InitRenderer /\ [][NextRenderer]_vars

-----------------------------------------------------------------------------
(* Calls of RichTextRenderer: the spans it is given *)

\* a parsed span: link is absent when it is undefined
Span(content, link, bold, italic, strikethrough, underline, code) ==
    JObj(("content" :> JStr(content)) @@ OptField("link", link)
         @@ ("annotations" :>
                JObj([bold |-> JBool(bold), italic |-> JBool(italic),
                      strikethrough |-> JBool(strikethrough),
                      underline |-> JBool(underline), code |-> JBool(code),
                      color |-> JStr("default")])))

Spans ==
    {Span("Hi", l, b, i, s, u, c) :
        l \in {Undef, JStr(""), JStr("https://example.com")}, b \in BOOLEAN, i \in BOOLEAN, s \in BOOLEAN,
        u \in BOOLEAN, c \in BOOLEAN}

\* the arrays of one span, and the arrays up to MaxRuns of a plain span and
\* a linked span in bold, italic and inline code
SpanArrays ==
    {JArr(<<span>>) : span \in Spans}
    \cup {JArr(a) : a \in SeqsUpTo(
              {Span("Hello ", Undef, FALSE, FALSE, FALSE, FALSE, FALSE),
               Span("World", JStr("https://example.com"),
                    TRUE, TRUE, FALSE, FALSE, TRUE)}, MaxRuns)}

InitRichTextRenderer ==
    /\ op = "none"
    /\ arg \in SpanArrays
    /\ ret = NotCalled
    /\ NothingFetched

CallRichTextRenderer ==
    /\ op = "none"
    /\ op' = "RichTextRenderer"
    /\ ret' = RichTextRenderer(arg)
    /\ UNCHANGED <<arg, fetchVars, envVars, postVars, pageVars>>

SpecRichTextRenderer == InitRichTextRenderer /\ [][CallRichTextRenderer]_vars

-----------------------------------------------------------------------------
(* Properties of NotionBlockParser.parseRichText *)

RunsOnly(a) == \A i \in 1..Len(a) : ~IsNullish(a[i])

\* the plain text a run carries: its plain_text when that is a string
PlainTextOfRun(rt) ==
    IF rt.k = "obj" /\ "plain_text" \in DOMAIN rt /\ rt.plain_text.k = "str"
    THEN rt.plain_text.s ELSE ""

BoldOfRun(rt) ==
    rt.k = "obj" /\ "annotations" \in DOMAIN rt /\ rt.annotations.k = "obj"
    /\ "bold" \in DOMAIN rt.annotations /\ rt.annotations.bold = JTrue

\* C1: parseRichText of an array of runs returns an array of the same length
\* whose i-th span comes from the i-th run (its text and its bold flag); of
\* null, undefined or any other non-array it returns the empty array; what
\* it returns is never null.
C1_LengthAndOrder ==
    op = "parseRichText" =>
        /\ ~IsNullish(ret)
        /\ ~IsArray(arg) => ret = JArr(<<>>)
        /\ (IsArray(arg) /\ RunsOnly(arg.a)) =>
              /\ IsArray(ret)
              /\ Len(ret.a) = Len(arg.a)
              /\ \A i \in 1..Len(arg.a) :
                    /\ ret.a[i].content = JStr(PlainTextOfRun(arg.a[i]))
                    /\ ret.a[i].annotations.bold = JBool(BoldOfRun(arg.a[i]))

C1_Witness ==
    /\ op = "parseRichText"
    /\ IsArray(arg) /\ Len(arg.a) = 2
    /\ IsArray(ret) /\ Len(ret.a) = 2
    /\ ret.a[1].content = JStr("bold ")
    /\ ret.a[2].content = JStr("Normal ")

\* C2: parseRichText returns an array of spans for every input, an array
\* with null, undefined or non-object elements included; it never throws.
C2_NeverThrows ==
    op = "parseRichText" => IsArray(ret)

FlagNames == {"bold", "italic", "strikethrough", "underline", "code"}

DefaultAnnotations ==
    JObj([bold |-> JFalse, italic |-> JFalse, strikethrough |-> JFalse,
          underline |-> JFalse, code |-> JFalse, color |-> JStr("default")])

\* C3: a run without annotations object gets all five flags false and color
\* "default"; each field of an annotations object is defaulted on its own:
\* a flag that is set is kept, a color that is given (and not empty) is
\* kept, and every field that is absent takes its default whatever the
\* other fields are.
C3_AnnotationDefaults ==
    (op = "parseRichText" /\ IsArray(arg) /\ RunsOnly(arg.a)) =>
        \A i \in 1..Len(arg.a) :
            LET ann == Prop(arg.a[i], "annotations")
                out == ret.a[i].annotations
            IN  /\ IsNullish(ann) => out = DefaultAnnotations
                /\ ann.k = "obj" =>
                      /\ \A f \in FlagNames :
                            out[f] = IF Prop(ann, f) = JTrue THEN JTrue ELSE JFalse
                      /\ out.color = IF Prop(ann, "color") \in {Undef, JStr("")}
                                     THEN JStr("default") ELSE ann.color

C3_Witness ==
    /\ op = "parseRichText"
    /\ IsArray(arg) /\ Len(arg.a) = 1
    /\ Prop(arg.a[1], "annotations").k = "obj"
    /\ arg.a[1].annotations.bold = JTrue
    /\ arg.a[1].annotations.italic = Undef
    /\ arg.a[1].annotations.underline = JFalse
    /\ arg.a[1].annotations.color = Undef
    /\ ret.a[1].annotations.bold = JTrue
    /\ ret.a[1].annotations.italic = JFalse
    /\ ret.a[1].annotations.color = JStr("default")

-----------------------------------------------------------------------------
(* Properties of NotionBlockParser.parseBlock and parseBlocks *)

IsRecognized(type) == type.k = "str" /\ type.s \in RecognizedTypes

\* C4: for the 14 recognized type strings a block that parseBlock returns
\* carries the input type as its tag; for any other type, or none, parseBlock
\* returns null and does not throw.
C4_TypeTag ==
    (op = "parseBlock" /\ arg.k = "obj") =>
        LET type == Prop(arg, "type")
        IN  /\ (IsRecognized(type) /\ ret.k = "obj") => ret.type = type
            /\ ~IsRecognized(type) => ret = Null

C4_Witness ==
    /\ op = "parseBlock"
    /\ Prop(arg, "type") = JStr("heading_2")
    /\ ret.k = "obj"
    /\ ret.type = JStr("heading_2")

\* the places of the records parseBlock keeps
KeptPlaces(blocks) == {i \in 1..Len(blocks) : parseBlock(blocks[i]) # Null}

\* the j-th of them
KeptPlace(blocks, j) ==
    CHOOSE i \in KeptPlaces(blocks) :
        Cardinality({m \in KeptPlaces(blocks) : m < i}) = j - 1

\* C5: parseBlocks returns the input records, without those parseBlock gives
\* null for, in their input order; every node has the id and the parse
\* result of its record and no children.  So the output is no longer than
\* the input, and as long exactly when nothing is dropped.
C5_FilterInOrder ==
    (op = "parseBlocks" /\ IsArray(arg) /\ ~IsThrow(ret)) =>
        /\ IsArray(ret)
        /\ Len(ret.a) = Cardinality(KeptPlaces(arg.a))
        /\ \A j \in 1..Len(ret.a) :
              LET i == KeptPlace(arg.a, j)
              IN  /\ ret.a[j].id = arg.a[i].id
                  /\ ret.a[j].block = parseBlock(arg.a[i])
                  /\ ret.a[j].children = JArr(<<>>)
        /\ Len(ret.a) <= Len(arg.a)
        /\ Len(ret.a) = Len(arg.a) <=> KeptPlaces(arg.a) = 1..Len(arg.a)

C5_Witness ==
    /\ op = "parseBlocks"
    /\ IsArray(arg) /\ Len(arg.a) = 3
    /\ arg.a[1].type = JStr("heading_1")
    /\ arg.a[2].type = JStr("unsupported")
    /\ arg.a[3].type = JStr("paragraph")
    /\ IsArray(ret) /\ Len(ret.a) = 2
    /\ ret.a[1].id = JStr("b1") /\ ret.a[1].block.type = JStr("heading_1")
    /\ ret.a[2].id = JStr("b3") /\ ret.a[2].block.type = JStr("paragraph")

\* the plain texts of runs i.. written one after the other
RECURSIVE PlainTextFrom(_, _)
PlainTextFrom(runs, i) ==
    IF i > Len(runs) THEN ""
    ELSE PlainTextOfRun(runs[i]) \o PlainTextFrom(runs, i + 1)

\* C6: the content of a parsed code block is the plain text of the runs of
\* code.rich_text, in order, nothing in between (the empty string for no
\* runs); its language is code.language, "plain text" when there is none.
C6_CodeContent ==
    (op = "parseBlock" /\ Prop(arg, "type") = JStr("code") /\ ret.k = "obj") =>
        LET richText == OptMember(Prop(arg, "code"), "rich_text")
            language == OptMember(Prop(arg, "code"), "language")
        IN  /\ ret.content =
                  JStr(IF IsArray(richText) THEN PlainTextFrom(richText.a, 1) ELSE "")
            /\ ret.language = IF language \in {Undef, JStr("")}
                              THEN JStr("plain text") ELSE language

C6_Witness ==
    /\ op = "parseBlock"
    /\ Prop(arg, "type") = JStr("code")
    /\ Prop(Prop(arg, "code"), "rich_text") = JArr(<<WorldRun, NoTextRun, HelloRun>>)
    /\ Prop(Prop(arg, "code"), "language") = Undef
    /\ ret.k = "obj"
    /\ ret.content = JStr(" WorldHello")
    /\ ret.language = JStr("plain text")

\* neither image.external nor image.file holds a url
NoImageUrl(block) ==
    LET imageData == Prop(block, "image")
    IN  /\ ~Truthy(OptMember(OptMember(imageData, "external"), "url"))
        /\ ~Truthy(OptMember(OptMember(imageData, "file"), "url"))

\* C7: parseBlock returns null for an image record when neither its external
\* nor its file sub-object holds a url, and parseBlocks leaves such a record
\* out; the url of an image block that parseBlock returns is a non-empty
\* string.
C7_ImageUrl ==
    /\ (op = "parseBlock" /\ Prop(arg, "type") = JStr("image")) =>
          /\ NoImageUrl(arg) => ret = Null
          /\ ret.k = "obj" => (ret.url.k = "str" /\ ret.url.s # "")
    /\ (op = "parseBlocks" /\ IsArray(arg) /\ IsArray(ret)) =>
          \A i \in 1..Len(arg.a) :
              (arg.a[i].type = JStr("image") /\ NoImageUrl(arg.a[i])) =>
                  \A j \in 1..Len(ret.a) : ret.a[j].id # arg.a[i].id

C7_Witness ==
    /\ op = "parseBlock"
    /\ Prop(arg, "type") = JStr("image")
    /\ Prop(Prop(arg, "image"), "type") = JStr("external")
    /\ Prop(Prop(arg, "image"), "external") = EmptyObj
    /\ Prop(Prop(arg, "image"), "file") = JObj([url |-> JStr("")])
    /\ ret = Null

\* C8: parseBlock returns a block, and does not throw, for every record of a
\* recognized type other than image, whatever its nested object is (absent,
\* null, without fields, rich_text or caption not an array); content and
\* caption then default to the empty array, hasChildren, isToggleable and
\* checked to false, language to "plain text", the callout color to
\* "default" with the icon unset, the bookmark url to "".
C8_RecognizedNeverFails ==
    (op = "parseBlock" /\ IsRecognized(Prop(arg, "type"))
        /\ arg.type # JStr("image")) =>
        LET nested == Prop(arg, arg.type.s)
            Missing(f) == ~Truthy(OptMember(nested, f))
            NoArray(f) == ~IsArray(OptMember(nested, f))
        IN  /\ ret.k = "obj"
            /\ ("content" \in DOMAIN ret /\ arg.type # JStr("code")
                   /\ NoArray("rich_text")) => ret.content = JArr(<<>>)
            /\ ("caption" \in DOMAIN ret /\ NoArray("caption")) =>
                   ret.caption = JArr(<<>>)
            /\ ("hasChildren" \in DOMAIN ret
                   /\ ~Truthy(Prop(arg, "has_children"))) => ret.hasChildren = JFalse
            /\ ("isToggleable" \in DOMAIN ret /\ Missing("is_toggleable")) =>
                   ret.isToggleable = JFalse
            /\ ("language" \in DOMAIN ret /\ Missing("language")) =>
                   ret.language = JStr("plain text")
            /\ (arg.type = JStr("callout") /\ Missing("color")) =>
                   ret.color = JStr("default")
            /\ (arg.type = JStr("callout") /\ Missing("icon")) => ret.icon = Undef
            /\ (arg.type = JStr("bookmark") /\ Missing("url")) => ret.url = JStr("")
            /\ ("checked" \in DOMAIN ret /\ Missing("checked")) => ret.checked = JFalse

\* the part of C8 the code keeps: every recognized type but code and image
C8_ExceptCode ==
    (op = "parseBlock" /\ Prop(arg, "type") = JStr("code")) \/ C8_RecognizedNeverFails

-----------------------------------------------------------------------------
(* Properties of getPageBlocks *)

\* every node of a tree of block nodes, at every depth
RECURSIVE NodesOf(_)
NodesOf(nodes) ==
    UNION {{nodes[i]} \cup NodesOf(nodes[i].children.a) : i \in 1..Len(nodes)}

\* the source records the external API has listed so far
SourceRecords ==
    UNION {{listed[j][2][i] : i \in 1..Len(listed[j][2])} : j \in 1..Len(listed)}

SourceOf(id) == CHOOSE r \in SourceRecords : r.id = id

WasListed(id) == \E j \in 1..Len(listed) : listed[j][1] = id

\* the results the API gave for the children of id
ListingOf(id) == listed[CHOOSE j \in 1..Len(listed) : listed[j][1] = id][2]

NestingVariants ==
    {"paragraph", "bulleted_list_item", "numbered_list_item", "toggle", "to_do"}

\* C9: in the tree getPageBlocks returns, a node has children only if it is
\* a paragraph, a list item, a toggle or a to_do whose hasChildren is true;
\* a node of any other variant has no children, also when its source record
\* says has_children: true.
C9_ChildrenOnlyUnderNestingVariants ==
    phase = "done" =>
        \A n \in NodesOf(result.a) :
            /\ Len(n.children.a) > 0 =>
                  /\ n.block.type.s \in NestingVariants
                  /\ n.block.hasChildren = JTrue
            /\ n.block.type.s \notin NestingVariants => n.children = JArr(<<>>)

C9_Witness ==
    /\ phase = "done"
    /\ \E n \in NodesOf(result.a), m \in NodesOf(result.a) :
          /\ n.block.type = JStr("toggle")
          /\ Len(n.children.a) > 0
          /\ m.block.type = JStr("quote")
          /\ SourceOf(m.id).has_children = JTrue
          /\ m.children = JArr(<<>>)

\* what section 4.2 of the specification keeps of a listing: the records of
\* a recognized type, an image only with a url
KeptBySpec(record) ==
    /\ IsRecognized(Prop(record, "type"))
    /\ record.type = JStr("image") => ~NoImageUrl(record)

\* ids and nesting of a tree of block nodes
RECURSIVE Skeleton(_)
Skeleton(nodes) ==
    [i \in 1..Len(nodes) |-> <<nodes[i].id, Skeleton(nodes[i].children.a)>>]

\* ids and nesting of the complete tree under id, from what the API listed
RECURSIVE SourceSkeleton(_)
SourceSkeleton(id) ==
    IF ~WasListed(id) THEN <<>>
    ELSE LET kept == SelectSeq(ListingOf(id), KeptBySpec)
         IN  [i \in 1..Len(kept) |->
                <<kept[i].id,
                  IF kept[i].type.s \in NestingVariants
                        /\ Truthy(Prop(kept[i], "has_children"))
                  THEN SourceSkeleton(kept[i].id) ELSE <<>> >>]

\* C10: getPageBlocks does not raise; when a children listing failed, at any
\* depth, it returns the empty array and nothing of what was fetched before;
\* when none failed it returns the complete tree.
C10_EmptyOnFailureElseComplete ==
    phase = "done" =>
        /\ IsArray(result)
        /\ failed => result = JArr(<<>>)
        /\ ~failed => Skeleton(result.a) = SourceSkeleton(PageId)

\* C10 for the runs in which parseBlocks did not throw
C10_UnlessParserThrows ==
    (\E j \in 1..Len(listed) : IsThrow(parseBlocks(JArr(listed[j][2]))))
    \/ C10_EmptyOnFailureElseComplete

\* a listing fails after a subtree was fetched
C10_FailureAfterSubtree ==
    /\ phase = "done"
    /\ failed
    /\ Len(listed) = 2
    /\ Len(listed[2][2]) > 0
    /\ Len(calls) = 3
    /\ result = JArr(<<>>)

-----------------------------------------------------------------------------
(* Properties of getPostById, getPageBlocks and BlogPostPage *)

BothReturned == postPc = "done" /\ phase = "done"

\* C11: without the API token, getPostById returns null and getPageBlocks
\* returns the empty array, and neither raises, whatever the external API
\* does.
C11_NoTokenNullAndEmpty ==
    (~apiKey /\ BothReturned) =>
        /\ post = Null
        /\ result = JArr(<<>>)

\* the part of C11 that getPostById meets, and neither function raises
C11_NoTokenNullPost ==
    /\ (~apiKey /\ postPc = "done") => post = Null
    /\ ~IsThrow(post)
    /\ ~IsThrow(result)

\* without the token getPageBlocks returns blocks the API listed
C11_NoTokenYetBlocks ==
    /\ ~apiKey
    /\ BothReturned
    /\ post = Null
    /\ result # JArr(<<>>)

\* C12: without the API token neither getPostById nor getPageBlocks issues
\* an external API call.
C12_NoTokenNoCall ==
    ~apiKey => (retrieves = 0 /\ calls = <<>>)

\* the part of C12 that getPostById meets
C12_NoTokenNoRetrieve ==
    ~apiKey => (retrieves = 0 /\ pageResponse = NotCalled)

\* C13: getPostById never raises; when pages.retrieve fails the result is
\* null; when constructing the post from the page fails (a page without
\* properties) the result is null; otherwise it is the post built from the
\* page (its id, and its title read from the page's title property).
C13_NullOnFailureElsePost ==
    /\ ~IsThrow(post)
    /\ (postPc = "done" /\ pageResponse # NotCalled) =>
          IF pageResponse = Throw
          THEN post = Null
          ELSE IF IsNullish(Prop(pageResponse, "properties"))
                    \/ IsThrow(NotionPost(pageResponse))
               THEN post = Null
               ELSE /\ post = NotionPost(pageResponse)
                    /\ post.id = pageResponse.id
                    /\ post.title =
                          getTitle(Prop(pageResponse.properties, "title"))

\* the page retrieved has no properties object
C13_Witness ==
    /\ postPc = "done"
    /\ pageResponse = Page(Undef, Null)
    /\ post = Null

\* C14: when getPostWithBlocks yields a null post the page takes the
\* not-found path, whatever the blocks are; when the post is not null the
\* page returns the article, also with no blocks.
C14_NullPostIsNotFound ==
    /\ ~IsThrow(joined)
    /\ view # "none" =>
          /\ joined.post = Null => view = "notFound"
          /\ joined.post # Null => view = "article"

\* a post is there and the block fetch failed
C14_Witness ==
    /\ view = "article"
    /\ joined.post # Null
    /\ failed
    /\ joined.blocks = JArr(<<>>)

\* no post, yet blocks: not found
C14_NotFoundWithBlocks ==
    /\ view = "notFound"
    /\ joined.post = Null
    /\ joined.blocks # JArr(<<>>)

-----------------------------------------------------------------------------
(* Properties of the NotionPost constructor *)

IsString(v) == v.k = "str"

\* every field has a defined value, and the default one when the property
\* it is read from is absent
FieldsDefined(page, fields) ==
    /\ ~IsThrow(fields)
    /\ IsString(fields.title)
    /\ IsString(fields.status)
    /\ IsString(fields.createdDate)
    /\ fields.series = Null \/ IsString(fields.series)
    /\ IsArray(fields.categories)
    /\ fields.thumbnail = Null \/ IsString(fields.thumbnail)
    /\ Prop(page.properties, "title") = Undef => fields.title = JStr("")
    /\ Prop(page.properties, "status") = Undef => fields.status = JStr("")
    /\ Prop(page.properties, "created_date") = Undef => fields.createdDate = JStr("")
    /\ Prop(page.properties, "series") = Undef => fields.series = Null
    /\ Prop(page.properties, "categories") = Undef => fields.categories = JArr(<<>>)
    /\ Prop(page, "cover") \in {Undef, Null} \cup TagOnlyCovers =>
          fields.thumbnail = Null

ConstructedFromProperties ==
    op = "NotionPost" /\ Prop(arg, "properties") # Undef

\* C15: constructing a NotionPost from a page with a properties object never
\* fails and gives every field a defined value, the default when the
\* property is absent, for every combination of absent properties and every
\* cover shape: absent, null, or a type tag without the sub-object of that
\* type.
C15_NeverFailsFieldsDefined ==
    ConstructedFromProperties => FieldsDefined(arg, ret)

\* C15 for the covers that are absent, null, or carry the sub-object their
\* type names
C15_ExceptTagOnlyCover ==
    (ConstructedFromProperties /\ Prop(arg, "cover") \notin TagOnlyCovers) =>
        FieldsDefined(arg, ret)

\* a cover with a type tag only: the constructor raises
C15_TagOnlyCoverThrows ==
    /\ op = "NotionPost"
    /\ arg = Page(EmptyObj, JObj([type |-> JStr("file")]))
    /\ IsThrow(ret)

-----------------------------------------------------------------------------
(* Properties of RichTextRenderer *)

\* the tags from a node down to its text, outermost first (every element
\* RichTextRenderer makes has one child)
RECURSIVE TagsOf(_)
TagsOf(node) ==
    IF node.k = "el" THEN <<node.tag>> \o TagsOf(node.kids[1]) ELSE <<>>

RECURSIVE TextOf(_)
TextOf(node) == IF node.k = "el" THEN TextOf(node.kids[1]) ELSE node

StyleTagNames == {"strong", "em", "s", "u", "code"}
IsStyleTag(tag) == tag \in StyleTagNames
StyleTagsOf(node) == SelectSeq(TagsOf(node), IsStyleTag)

FlagOfTag ==
    [tag \in StyleTagNames |->
        CASE tag = "strong" -> "bold"
          [] tag = "em" -> "italic"
          [] tag = "s" -> "strikethrough"
          [] tag = "u" -> "underline"
          [] tag = "code" -> "code"]

\* the tags of order whose flag is true in the span
WrappersIn(order, text) ==
    LET IsSet(tag) == text.annotations[FlagOfTag[tag]] = JTrue
    IN  SelectSeq(order, IsSet)

Rendered == op = "RichTextRenderer" /\ ~IsThrow(ret)

\* C16: the style wrappers of a span nest, from innermost to outermost, in
\* the order strikethrough, underline, italic, bold, inline code, for every
\* combination of true flags.
C16_StrikethroughInnermost ==
    Rendered =>
        \A i \in 1..Len(arg.a) :
            StyleTagsOf(ret.kids[i]) =
                WrappersIn(<<"code", "strong", "em", "u", "s">>, arg.a[i])

\* C16 as the code has it: the style wrappers of a span nest, from innermost
\* to outermost, in the order bold, italic, strikethrough, underline, inline
\* code, around the text, one wrapper for each true flag.
C16_BoldInnermost ==
    Rendered =>
        \A i \in 1..Len(arg.a) :
            /\ StyleTagsOf(ret.kids[i]) =
                    WrappersIn(<<"code", "u", "s", "em", "strong">>, arg.a[i])
            /\ TextOf(ret.kids[i]) = arg.a[i].content

\* a span with the five flags true
C16_Witness ==
    /\ Rendered
    /\ Len(arg.a) = 1
    /\ \A tag \in StyleTagNames : arg.a[1].annotations[FlagOfTag[tag]] = JTrue
    /\ StyleTagsOf(ret.kids[1]) = <<"code", "u", "s", "em", "strong">>

\* C17: a span with bold and italic true is rendered with the strong
\* element as the child of the em element, and the text inside the strong
\* element.
C17_StrongInsideEm ==
    Rendered =>
        \A i \in 1..Len(arg.a) :
            (arg.a[i].annotations.bold = JTrue
                /\ arg.a[i].annotations.italic = JTrue) =>
                LET tags == TagsOf(ret.kids[i])
                IN  /\ Len(tags) >= 2
                    /\ tags[Len(tags) - 1] = "em"
                    /\ tags[Len(tags)] = "strong"
                    /\ TextOf(ret.kids[i]) = arg.a[i].content

\* bold and italic, nothing else
C17_Witness ==
    /\ Rendered
    /\ arg = JArr(<<Span("Hi", Undef, TRUE, TRUE, FALSE, FALSE, FALSE)>>)
    /\ ret.kids[1] =
          El("span", {},
             <<El("em", {}, <<El("strong", {}, <<JStr("Hi")>>)>>)>>)

LinkPresent(text) ==
    Prop(text, "link") # Undef /\ Prop(text, "link") # JStr("")

\* C18: a span is rendered inside an a element exactly when its link is
\* present and not empty; the a element is the child of the span element and
\* holds every style wrapper, inline code too; its href is the link, its
\* target _blank and its rel noopener noreferrer.
C18_LinkOutermost ==
    Rendered =>
        \A i \in 1..Len(arg.a) :
            LET tags == TagsOf(ret.kids[i])
                child == ret.kids[i].kids[1]
            IN  /\ (\E j \in 1..Len(tags) : tags[j] = "a") <=> LinkPresent(arg.a[i])
                /\ LinkPresent(arg.a[i]) =>
                      /\ child.tag = "a"
                      /\ child.attrs = {<<"href", arg.a[i].link>>,
                                        <<"target", JStr("_blank")>>,
                                        <<"rel", JStr("noopener noreferrer")>>}
                      /\ StyleTagsOf(child) = StyleTagsOf(ret.kids[i])
                      /\ SubSeq(tags, 3, Len(tags)) = StyleTagsOf(child)

\* a linked span in inline code
C18_Witness ==
    /\ Rendered
    /\ Len(arg.a) = 1
    /\ LinkPresent(arg.a[1])
    /\ arg.a[1].annotations.code = JTrue
    /\ SubSeq(TagsOf(ret.kids[1]), 1, 3) = <<"span", "a", "code">>

-----------------------------------------------------------------------------
(* Properties of NotionBlocksRenderer and BlockRenderer *)

HasClass(node, name) == node.k = "el" /\ <<"className", JStr(name)>> \in node.attrs

NonEmptyChildren(node) ==
    IsArray(Prop(node, "children")) /\ Len(node.children.a) > 0

\* markup is the walk of nodes: one notion-block group for each node, in
\* order; in a group the markup of the node's own block comes first, and
\* a notion-block-children container follows exactly when the node has one
\* or more children, holding the walk of those children and nothing else
RECURSIVE IsTreeWalk(_, _)
IsTreeWalk(markup, nodes) ==
    /\ markup.k = "el"
    /\ markup.tag = "div"
    /\ markup.attrs = ClassName("notion-blocks")
    /\ Len(markup.kids) = Len(nodes)
    /\ \A i \in 1..Len(nodes) :
          LET group == markup.kids[i]
              own == ChildrenFrom(<<BlockRenderer(nodes[i].block)>>, 1)
          IN  /\ group.tag = "div"
              /\ group.attrs = ClassName("notion-block")
              /\ SubSeq(group.kids, 1, Len(own)) = own
              /\ IF NonEmptyChildren(nodes[i])
                 THEN /\ Len(group.kids) = Len(own) + 1
                      /\ LET container == group.kids[Len(own) + 1]
                         IN  /\ container.tag = "div"
                             /\ container.attrs = ClassName("notion-block-children")
                             /\ Len(container.kids) = 1
                             /\ IsTreeWalk(container.kids[1], nodes[i].children.a)
                 ELSE Len(group.kids) = Len(own)

\* the tag a node's own block is seen by in the markup
OwnTagOfBlock(block) ==
    CASE block.type = JStr("paragraph") -> "p"
      [] block.type = JStr("heading_2") -> "h2"
      [] block.type = JStr("divider") -> "hr"
      [] block.type = JStr("toggle") -> "details"
      [] OTHER -> "none"

\* the own tags of the nodes i.. and of their descendants, in depth-first
\* pre-order
RECURSIVE PreOrderFrom(_, _)
PreOrderFrom(nodes, i) ==
    IF i > Len(nodes) THEN <<>>
    ELSE <<OwnTagOfBlock(nodes[i].block)>>
         \o (IF NonEmptyChildren(nodes[i])
             THEN PreOrderFrom(nodes[i].children.a, 1) ELSE <<>>)
         \o PreOrderFrom(nodes, i + 1)

\* the own tag of a notion-block group of the markup
OwnTagOfGroup(group) ==
    IF Len(group.kids) > 0 /\ ~HasClass(group.kids[1], "notion-block-children")
    THEN group.kids[1].tag ELSE "none"

\* the own tags of the notion-block groups among the nodes i.. and below
\* them, in document order
RECURSIVE GroupsFrom(_, _)
GroupsFrom(kids, i) ==
    IF i > Len(kids) THEN <<>>
    ELSE (IF kids[i].k # "el" THEN <<>>
          ELSE (IF HasClass(kids[i], "notion-block")
                THEN <<OwnTagOfGroup(kids[i])>> ELSE <<>>)
               \o GroupsFrom(kids[i].kids, 1))
         \o GroupsFrom(kids, i + 1)

\* C19: NotionBlocksRenderer emits, for every node at every depth and under
\* every parent variant, the node's own block markup first and then a
\* child-group container exactly when the node has one or more children,
\* holding the rendering of those children; siblings come in input order,
\* so each node is visited once, in depth-first pre-order.
C19_TreeWalkPreOrder ==
    op = "NotionBlocksRenderer" =>
        /\ ~IsThrow(ret)
        /\ IsTreeWalk(ret, arg.a)
        /\ GroupsFrom(<<ret>>, 1) = PreOrderFrom(arg.a, 1)

\* a toggle with a paragraph child that has a divider child
C19_Witness ==
    /\ op = "NotionBlocksRenderer"
    /\ Len(arg.a) = 1
    /\ arg.a[1].block.type = JStr("toggle")
    /\ GroupsFrom(<<ret>>, 1) = <<"details", "p", "hr">>
    /\ HasClass(ret.kids[1].kids[2], "notion-block-children")
    /\ HasClass(ret.kids[1].kids[2].kids[1].kids[1].kids[2], "notion-block-children")

ExpectedTag ==
    [type \in RecognizedTypes |->
        CASE type = "paragraph" -> "p"
          [] type = "heading_1" -> "h1"
          [] type = "heading_2" -> "h2"
          [] type = "heading_3" -> "h3"
          [] type \in {"bulleted_list_item", "numbered_list_item"} -> "li"
          [] type = "quote" -> "blockquote"
          [] type = "code" -> "div"
          [] type = "callout" -> "div"
          [] type = "divider" -> "hr"
          [] type = "image" -> "figure"
          [] type = "bookmark" -> "a"
          [] type = "toggle" -> "details"
          [] type = "to_do" -> "div"]

ExpectedClass(block) ==
    CASE block.type.s \in {"heading_1", "heading_2", "heading_3",
                           "bulleted_list_item", "numbered_list_item",
                           "paragraph", "quote", "code", "divider", "image",
                           "bookmark", "toggle"} ->
            "notion-" \o block.type.s
      [] block.type.s = "to_do" -> "notion-to-do"
      [] block.type.s = "callout" ->
            "notion-callout notion-callout-" \o block.color.s

\* C20: BlockRenderer dispatches on the type tag alone: a block of one of
\* the 14 tags is rendered by the renderer of its variant (heading_1/2/3 as
\* h1/h2/h3, both list items as li), every block parseBlock returns is
\* rendered, and a block of any other tag renders nothing.
C20_DispatchOnTypeTag ==
    op = "BlockRenderer" =>
        /\ ~IsThrow(ret)
        /\ IF IsRecognized(Prop(arg, "type"))
           THEN /\ ret.k = "el"
                /\ ret.tag = ExpectedTag[arg.type.s]
                /\ HasClass(ret, ExpectedClass(arg))
           ELSE ret = Null
        /\ arg \in ParsedBlocks => ret # Null

\* a heading of level 3
C20_Witness ==
    /\ op = "BlockRenderer"
    /\ arg \in ParsedBlocks
    /\ arg.type = JStr("heading_3")
    /\ ret.tag = "h3"
    /\ HasClass(ret, "notion-heading_3")

\* a block of another tag
C20_OtherTagRendersNothing ==
    /\ op = "BlockRenderer"
    /\ Prop(arg, "type") = JStr("table")
    /\ ret = Null

-----------------------------------------------------------------------------
(* Properties of the children-listing calls of a getPageBlocks run *)

\* the listing calls that have neither returned nor failed
Outstanding == Len(calls) - Len(listed) - (IF failed THEN 1 ELSE 0)

ParserThrew ==
    \E j \in 1..Len(listed) : IsThrow(parseBlocks(JArr(listed[j][2])))

\* a source record whose children the fetcher is to list
Eligible(record) ==
    /\ KeptBySpec(record)
    /\ record.type.s \in NestingVariants
    /\ Truthy(Prop(record, "has_children"))

\* the ids of the eligible records among records i.. and, below those whose
\* listing has returned, of their eligible descendants, in pre-order
RECURSIVE EligibleFrom(_, _)
EligibleFrom(records, i) ==
    IF i > Len(records) THEN <<>>
    ELSE (IF Eligible(records[i])
          THEN <<records[i].id>>
               \o (IF WasListed(records[i].id)
                   THEN EligibleFrom(ListingOf(records[i].id), 1) ELSE <<>>)
          ELSE <<>>)
         \o EligibleFrom(records, i + 1)

\* the root, then the eligible nodes listed so far, in pre-order
CallsInPreOrder ==
    <<PageId>> \o (IF WasListed(PageId)
                   THEN EligibleFrom(ListingOf(PageId), 1) ELSE <<>>)

IsPrefix(a, b) == Len(a) <= Len(b) /\ SubSeq(b, 1, Len(a)) = a

\* C21: in a getPageBlocks run at most one listing call is outstanding at any
\* time; the responses come in the order of the calls; the call for a node's
\* children is issued after the listing that holds the node has returned;
\* and the calls are issued in pre-order of the eligible nodes, the subtree
\* of a sibling before the next sibling (all of them once the run completes).
C21_SequentialDepthFirst ==
    /\ Outstanding \in {0, 1}
    /\ \A r \in 1..Len(listed) : r <= Len(calls) /\ listed[r][1] = calls[r]
    /\ \A j \in 2..Len(calls) :
          \E r \in 1..(j - 1) :
              /\ r <= Len(listed)
              /\ \E i \in 1..Len(listed[r][2]) : listed[r][2][i].id = calls[j]
    /\ IsPrefix(calls, CallsInPreOrder)
    /\ (phase = "done" /\ ~failed /\ ~ParserThrew) => calls = CallsInPreOrder

\* two eligible siblings, the first with a child: its listing returned
\* before the call for the second
C21_Witness ==
    /\ phase = "done"
    /\ ~failed
    /\ Len(calls) = 3
    /\ Len(listed) = 3
    /\ Len(ListingOf(PageId)) = 2
    /\ calls[2] = ListingOf(PageId)[1].id
    /\ Len(listed[2][2]) = 1
    /\ calls[3] = ListingOf(PageId)[2].id

\* the nodes of the returned tree whose children were to be listed
FetchedParents ==
    {n \in NodesOf(result.a) :
        /\ n.block.type.s \in NestingVariants
        /\ Truthy(Prop(n.block, "hasChildren"))}

CallsFor(id) == {j \in 1..Len(calls) : calls[j] = id}

\* C22: in a run in which no listing call fails, the number of listing calls
\* is 1 plus the number of nodes of the returned tree that are of a
\* children-capable variant with hasChildren true, hence at most 1 plus the
\* number of nodes; the id of each such node is the parent of exactly one
\* call.
C22_OneCallPerFetchedParent ==
    (phase = "done" /\ ~failed) =>
        /\ Len(calls) = 1 + Cardinality(FetchedParents)
        /\ Len(calls) <= 1 + Cardinality(NodesOf(result.a))
        /\ Cardinality(CallsFor(PageId)) = 1
        /\ \A n \in FetchedParents : Cardinality(CallsFor(n.id)) = 1

\* C22 for the runs in which parseBlocks did not throw
C22_UnlessParserThrows ==
    ParserThrew \/ C22_OneCallPerFetchedParent

\* three calls for a tree with two such nodes
C22_ThreeCalls ==
    /\ phase = "done"
    /\ ~failed
    /\ ~ParserThrew
    /\ Len(calls) = 3
    /\ Cardinality(FetchedParents) = 2

-----------------------------------------------------------------------------
(* Properties of getPostWithBlocks *)

\* what getPostById gives for the outcome of its call, run alone
PostAlone ==
    IF ~apiKey \/ pageResponse = Throw THEN Null
    ELSE IF IsThrow(NotionPost(pageResponse)) THEN Null
    ELSE NotionPost(pageResponse)

\* the tree under id, from the listings the API gave
RECURSIVE TreeOf(_)
TreeOf(id) ==
    LET blocks == parseBlocks(JArr(ListingOf(id))).a
    IN  [i \in 1..Len(blocks) |->
            IF /\ blocks[i].block.type.s \in NestingVariants
               /\ Truthy(Prop(blocks[i].block, "hasChildren"))
               /\ WasListed(blocks[i].id)
            THEN [blocks[i] EXCEPT !.children = JArr(TreeOf(blocks[i].id))]
            ELSE blocks[i]]

\* what getPageBlocks gives for the outcomes of its calls, run alone
BlocksAlone ==
    IF failed \/ ParserThrew THEN JArr(<<>>) ELSE JArr(TreeOf(PageId))

\* C23: getPostWithBlocks starts both fetches in one go, neither waiting
\* for the other; it returns only after both have returned; it never
\* raises; and under every interleaving of the external calls its result is
\* the pair of what each fetch gives alone for the same call outcomes.
C23_IndependentFetchesJoined ==
    /\ (postPc = "idle") <=> (phase = "idle")
    /\ ~IsThrow(joined)
    /\ joined # NotCalled =>
          /\ postPc = "done"
          /\ phase = "done"
          /\ joined.post = PostAlone
          /\ joined.blocks = BlocksAlone

\* both external calls are outstanding at once
C23_BothOutstanding ==
    /\ postPc = "retrieve"
    /\ retrieves = 1
    /\ pending = PageId
    /\ Outstanding = 1

\* a post, and no blocks because the second listing failed
C23_Witness ==
    /\ joined # NotCalled
    /\ joined.post # Null
    /\ joined.blocks = JArr(<<>>)
    /\ failed
    /\ Len(listed) = 1

\* no post, yet blocks
C23_NullPostWithBlocks ==
    /\ joined # NotCalled
    /\ joined.post = Null
    /\ pageResponse = Throw
    /\ joined.blocks # JArr(<<>>)

-----------------------------------------------------------------------------
(* Termination *)

\* C24: when every external call returns or fails in the end, and the source
\* tree is finite, every getPageBlocks run returns in the end, a tree or
\* the empty array, and every getPostWithBlocks run returns in the end.
C24_Terminates ==
    /\ (phase = "running") ~> (phase = "done" /\ IsArray(result))
    /\ (postPc # "idle") ~> (joined # NotCalled)

\* a run of three listings has returned
C24_Witness ==
    /\ joined # NotCalled
    /\ Len(calls) = 3
    /\ Len(listed) = 3
    /\ nextId = MaxNodes

-----------------------------------------------------------------------------
(* api/post-detail.ts: one page per listing *)

\* the ids of the nodes of the returned tree
ReturnedIds == {n.id : n \in NodesOf(result.a)}

\* the ids of the source records that lie after the first page of a listing
BeyondFirstPage ==
    UNION {{listed[j][4][i].id : i \in 1..Len(listed[j][4])} :
              j \in 1..Len(listed)}

\* C25: each listing call asks for one page of at most 100 items and a
\* continuation is never followed: no parent is listed twice, also when the
\* response says has_more; in every tree getPageBlocks returns, the root
\* sequence and every node's children sequence have at most 100 elements and
\* are the parsed survivors of the first pages only; no source record that
\* lies after a first page appears in the tree.
C25_FirstPageOnly ==
    /\ \A j \in 1..Len(listed) : Len(listed[j][2]) <= 100
    /\ \A j \in 1..Len(calls) : Cardinality(CallsFor(calls[j])) = 1
    /\ phase = "done" =>
          /\ Len(result.a) <= 100
          /\ \A n \in NodesOf(result.a) : Len(n.children.a) <= 100
          /\ result = BlocksAlone
          /\ ReturnedIds \cap BeyondFirstPage = {}

\* a run that ended after the root listing said has_more, with the whole
\* first page in the returned tree
C25_Witness ==
    /\ phase = "done"
    /\ Len(result.a) = 100
    /\ \E j \in 1..Len(listed) :
          /\ listed[j][1] = PageId
          /\ listed[j][3]
          /\ Len(listed[j][4]) > 0


-----------------------------------------------------------------------------
(* api/blocks/block-renderer.tsx: a toggle and its children *)

\* the elements among the nodes i.. and below them
RECURSIVE ElementsFrom(_, _)
ElementsFrom(kids, i) ==
    IF i > Len(kids) THEN {}
    ELSE (IF kids[i].k = "el"
          THEN {kids[i]} \cup ElementsFrom(kids[i].kids, 1) ELSE {})
         \cup ElementsFrom(kids, i + 1)

\* a disclosure element that holds its summary and nothing else
IsBareDisclosure(e) ==
    /\ e.k = "el"
    /\ e.tag = "details"
    /\ HasClass(e, "notion-toggle")
    /\ Len(e.kids) = 1
    /\ e.kids[1].k = "el"
    /\ e.kids[1].tag = "summary"
    /\ \A d \in ElementsFrom(e.kids, 1) :
          ~HasClass(d, "notion-block-children") /\ ~HasClass(d, "notion-block")

IsToggle(node) == Member(Prop(node, "block"), "type") = JStr("toggle")

\* in the walk markup of nodes, the group of every toggle with children is
\* the disclosure element followed by the container of the rendered
\* children, at every depth
RECURSIVE TogglesBesideChildren(_, _)
TogglesBesideChildren(markup, nodes) ==
    \A i \in 1..Len(nodes) :
        LET group == markup.kids[i]
        IN  /\ (IsToggle(nodes[i]) /\ NonEmptyChildren(nodes[i])) =>
                  /\ HasClass(group, "notion-block")
                  /\ Len(group.kids) = 2
                  /\ IsBareDisclosure(group.kids[1])
                  /\ HasClass(group.kids[2], "notion-block-children")
                  /\ group.kids[2].kids =
                        <<NotionBlocksRenderer(nodes[i].children)>>
            /\ NonEmptyChildren(nodes[i]) =>
                  TogglesBesideChildren(group.kids[Len(group.kids)].kids[1],
                                        nodes[i].children.a)

\* C26: the rendered children of a toggle are not inside its disclosure
\* element: ToggleBlockRenderer gives a disclosure element that holds the
\* summary only, and NotionBlocksRenderer puts the container of the
\* children after the disclosure element, as its sibling in the wrapper of
\* the same block.
C26_ToggleChildrenAreSiblings ==
    /\ (op = "BlockRenderer" /\ Member(arg, "type") = JStr("toggle")) =>
          IsBareDisclosure(ret)
    /\ (op = "NotionBlocksRenderer" /\ ~IsThrow(ret)) =>
          /\ \A e \in ElementsFrom(<<ret>>, 1) :
                e.tag = "details" => IsBareDisclosure(e)
          /\ TogglesBesideChildren(ret, arg.a)

\* a toggle whose only child is a paragraph
C26_Witness ==
    /\ op = "NotionBlocksRenderer"
    /\ Len(arg.a) = 1
    /\ IsToggle(arg.a[1])
    /\ NonEmptyChildren(arg.a[1])
    /\ arg.a[1].children.a[1].block.type = JStr("paragraph")
    /\ ret.kids[1].kids[1].tag = "details"
    /\ ret.kids[1].kids[2].kids[1].kids[1].kids[1].tag = "p"


-----------------------------------------------------------------------------
(* NotionBlockParser.parseRichText: the link of a span *)

HasField(v, f) == v.k = "obj" /\ f \in DOMAIN v

\* the url of the link nested in the text of a run, when it is a string
\* that is not empty; undefined otherwise
NestedLinkUrl(rt) ==
    IF /\ HasField(rt, "text") /\ HasField(rt.text, "link")
       /\ HasField(rt.text.link, "url")
       /\ rt.text.link.url.k = "str" /\ rt.text.link.url.s # ""
    THEN rt.text.link.url ELSE Undef

\* C27: the link of a span parseRichText returns is the url of the link
\* nested in the run's text when that url is present and not empty, and is
\* unset otherwise; it is never the empty string, and the href field at the
\* top of the run is never used.
C27_LinkFromNestedUrl ==
    (op = "parseRichText" /\ IsArray(arg) /\ RunsOnly(arg.a)) =>
        /\ IsArray(ret)
        /\ Len(ret.a) = Len(arg.a)
        /\ \A i \in 1..Len(arg.a) :
              /\ ret.a[i].link = NestedLinkUrl(arg.a[i])
              /\ ret.a[i].link # JStr("")
              /\ ret.a[i].link \notin HrefVals \ {Undef}

\* a run whose nested url is the empty string and whose href is set
C27_Witness ==
    /\ op = "parseRichText"
    /\ IsArray(arg)
    /\ Len(arg.a) = 1
    /\ HasField(arg.a[1], "href")
    /\ arg.a[1].href = JStr("https://href.example")
    /\ HasField(arg.a[1], "text")
    /\ arg.a[1].text = JObj([content |-> JStr("t"), link |-> JObj([url |-> JStr("")])])
    /\ ret.a[1].link = Undef

-----------------------------------------------------------------------------
(* NotionBlockParser.parseImage: the sub-object the url is taken from *)

\* the sub-object of the image the type tag selects
SelectedByTag(imageData) ==
    IF HasField(imageData, "type") /\ imageData.type = JStr("external")
    THEN Prop(imageData, "external") ELSE Prop(imageData, "file")

HoldsUrl(holder) ==
    HasField(holder, "url") /\ holder.url.k = "str" /\ holder.url.s # ""

\* C28: parseImage takes the url from the sub-object its type tag selects,
\* external for the tag "external" and file for every other tag; it returns
\* an image block exactly when that sub-object holds a url that is not
\* empty, the block then carrying that url; a url held by the other
\* sub-object only is never used.
C28_UrlByTypeTag ==
    (op = "parseBlock" /\ Prop(arg, "type") = JStr("image")) =>
        LET selected == SelectedByTag(Prop(arg, "image"))
        IN  /\ ~IsThrow(ret)
            /\ (ret # Null) <=> HoldsUrl(selected)
            /\ ret # Null =>
                  /\ ret.type = JStr("image")
                  /\ ret.url = selected.url

\* tagged external, the url held by the file sub-object only
C28_Witness ==
    /\ op = "parseBlock"
    /\ Prop(arg, "type") = JStr("image")
    /\ Prop(Prop(arg, "image"), "type") = JStr("external")
    /\ Prop(Prop(arg, "image"), "external") = JObj([url |-> JStr("")])
    /\ HoldsUrl(Prop(Prop(arg, "image"), "file"))
    /\ ret = Null


-----------------------------------------------------------------------------
(* api/post-detail.ts: where the fetcher does not descend *)

\* the parent the listing that holds the record of id was asked for
ParentOf(id) ==
    listed[CHOOSE j \in 1..Len(listed) :
               \E i \in 1..Len(listed[j][2]) : listed[j][2][i].id = id][1]

\* every ancestor of the record of id, below the root, is a record the
\* parser keeps, of a children-capable variant, with has_children true
RECURSIVE AncestorsEligible(_)
AncestorsEligible(id) ==
    \/ ParentOf(id) = PageId
    \/ /\ Eligible(SourceOf(ParentOf(id)))
       /\ AncestorsEligible(ParentOf(id))

\* C29: in a getPageBlocks run, a source block that the parser drops, or
\* whose variant is leaf-only, or whose has_children is false, never has its
\* children listed: no listing call carries its id and nothing is listed
\* under it; a source block is in the returned tree only if it is parseable
\* and each of its ancestors below the root is of a children-capable
\* variant with has_children true.
C29_NoDescentBelowIneligible ==
    /\ \A r \in SourceRecords :
          ~Eligible(r) => (CallsFor(r.id) = {} /\ ~WasListed(r.id))
    /\ phase = "done" =>
          \A n \in NodesOf(result.a) :
              /\ n.id \in {r.id : r \in SourceRecords}
              /\ KeptBySpec(SourceOf(n.id))
              /\ AncestorsEligible(n.id)
              /\ Len(n.children.a) > 0 => Eligible(SourceOf(n.id))

\* a run that listed the children of one block and passed by a dropped
\* image, a leaf-only block and a block without children, each of the
\* first two with has_children true
C29_Witness ==
    /\ phase = "done"
    /\ ~failed
    /\ Len(calls) = 2
    /\ \E n \in NodesOf(result.a) : Len(n.children.a) > 0
    /\ \E r \in SourceRecords :
          /\ r.type = JStr("image")
          /\ NoImageUrl(r)
          /\ r.has_children = JTrue
    /\ \E r \in SourceRecords :
          /\ KeptBySpec(r)
          /\ r.type.s \notin NestingVariants
          /\ r.has_children = JTrue


-----------------------------------------------------------------------------
(* api/post-detail.ts: after a listing has failed *)

\* C30: once a listing call of a getPageBlocks run has failed, the run
\* issues no further external call and gets no further response, the
\* remaining siblings and their subtrees staying unfetched, and the step in
\* which the call fails is the one in which the run returns the empty array.
C30_FailureEndsTheRun ==
    /\ [](failed => (/\ phase = "done"
                     /\ result = JArr(<<>>)
                     /\ stack = <<>>
                     /\ pending = Undef))
    /\ [][failed' => (/\ calls' = calls
                      /\ listed' = listed
                      /\ nextId' = nextId)]_vars

\* the listing of the first of two eligible siblings failed; the second was
\* never asked for
C30_Witness ==
    /\ failed
    /\ phase = "done"
    /\ result = JArr(<<>>)
    /\ Len(calls) = 2
    /\ Len(ListingOf(PageId)) = 2
    /\ Eligible(ListingOf(PageId)[1])
    /\ Eligible(ListingOf(PageId)[2])
    /\ calls[2] = ListingOf(PageId)[1].id


====
